---- MODULE Spec2Model ----
(***************************************************************************)
(* A model of the tmux front-end: the multiplexer client                   *)
(* (src/src/lib/tmux_interface.py), the terminal widget's capture loop and *)
(* key handling (src/src/ui/terminal_widget.py) and the application glue   *)
(* (src/src/ui/tmux_app.py).                                               *)
(*                                                                         *)
(* Text is modelled at the level of tokens: the control tool's error text  *)
(* is a short sequence of phrases, its listing output a sequence of lines, *)
(* each line the sequence of its colon-separated fields.                   *)
(***************************************************************************)
EXTENDS Integers, Sequences, FiniteSets, TLC

VARIABLES
    c_op,       \* client: the operation last called ("none" before any call)
    c_script,   \* client: the control tool's responses consumed by that call
    c_out,      \* client: the stdout the tool gave to a parsing operation
    c_res,      \* client: [exc, ret] what the operation raised / returned
    c_cmds      \* client: the tool subcommands the operation issued, in order

clientVars == <<c_op, c_script, c_out, c_res, c_cmds>>

VARIABLES
    w_session,  \* widget: current_session, a session name or "None"
    w_pane,     \* widget: _target_pane, the session whose pane it is, or "None"
    w_content,  \* widget: _terminal_content, the rendered frame
    w_task,     \* widget: _capture_task, a task id, 0 for None
    t_pc,       \* capture task: where the coroutine is suspended
    t_pending,  \* capture task: a cancellation is requested and not yet delivered
    t_cancel,   \* capture task: cancel() was called on it while it was not done
    t_exit,     \* capture task: why it ended
    t_sess,     \* capture task: the session whose active pane it is resolving
    t_target,   \* capture task: the target of the capture command in flight
    t_last,     \* capture task: outcome of its latest tool command
    a_pc,       \* the application's action in progress (attach, ctrl+c): where it is suspended
    a_sess,     \* that action: the session it was called with, or whose name it read
    d_pc,       \* delete tasks (_delete_session): where each is suspended
    d_name,     \* delete tasks: the session name each was created with
    u_pc,       \* the widget's on_unmount handler
    waitq,      \* the handlers suspended in `await self._capture_task`, oldest first
    writer      \* the capture task that wrote the frame or the target pane in the last step, else 0

taskVars == <<t_pc, t_pending, t_cancel, t_exit, t_sess, t_target, t_last>>

widgetVars == <<w_session, w_pane, w_content, w_task, taskVars,
                a_pc, a_sess, d_pc, d_name, u_pc, waitq, writer>>

VARIABLES
    k_op,       \* keys: the widget entry point last called ("none" before any call)
    k_att,      \* keys: whether a session was attached (current_session set)
    k_ev,       \* keys: the key event handed to on_key
    k_out,      \* keys: what the client operations answered during the call
    k_res       \* keys: what the call did: event flags and the client calls made

keyVars == <<k_op, k_att, k_ev, k_out, k_res>>

VARIABLES
    s_srv,      \* server: the names of the sessions the multiplexer holds
    s_prev,     \* server: the client call before the last one
    s_last      \* server: the last client call made against the server

serverVars == <<s_srv, s_prev, s_last>>

VARIABLES
    v_y,        \* view: scroll_y of the scroll container, lines above the viewport
    v_vh,       \* view: size.height of the scroll container (the viewport)
    v_ch,       \* view: virtual_size.height of the scroll container (the content)
    v_follow,   \* view: _follow_output
    v_last      \* view: the last handler run and the view it started from

viewVars == <<v_y, v_vh, v_ch, v_follow, v_last>>

VARIABLES
    p_op,       \* paste: the widget entry point last called ("none" before any call)
    p_att,      \* paste: whether a session was attached
    p_text,     \* paste: the pasted text
    p_res       \* paste: what the call did: event flags and the client calls made

pasteVars == <<p_op, p_att, p_text, p_res>>

VARIABLES
    sb_sessions,    \* sidebar: _sessions, the names of the sessions in display order
    sb_selected,    \* sidebar: _selected_index, counted from 0, -1 for none
    sb_pins,        \* sidebar: _pinned_names
    sb_pinned_in,   \* history: the pinned names, earliest pinned first
    sb_last         \* history: the last call, the directory it started from, its result

sidebarVars == <<sb_sessions, sb_selected, sb_pins, sb_pinned_in, sb_last>>

\* the application (tmux_app.py) over the sidebar and the terminal widget: the
\* terminal's current_session (a name, "None" if none), whether its capture
\* task runs, the frame it shows, the focused widget, and the terminal as it
\* was before the last handler of the application, the old_name that handler
\* was given ("None" if it takes none), and the names of the sessions the
\* tmux server holds
VARIABLES app_session, app_capture, app_frame, app_focus, app_before, app_old,
          app_server

appVars == <<app_session, app_capture, app_frame, app_focus, app_before, app_old,
             app_server>>

\* the paste handler in progress (terminal_widget.py:582-599), run on the
\* widget's message pump beside the application's actions and the tasks
VARIABLES
    h_pc,       \* paste handler: where it is suspended
    h_left,     \* paste handler: the lines and Enter tokens it has still to send
    h_origin,   \* history: current_session when the handler was entered
    h_sess,     \* paste handler: the session _resolve_target read, "None" if none
    h_sent      \* history: the sessions the sends made so far were addressed to

handlerVars == <<h_pc, h_left, h_origin, h_sess, h_sent>>

\* the sidebar with update_sessions taken one await at a time
\* (session_sidebar.py:17-57), for the handlers that run beside a refresh
VARIABLES
    r_sessions,  \* sidebar: _sessions, the names in display order
    r_index,     \* sidebar: _selected_index, counted from 0, -1 for none
    r_pins,      \* sidebar: _pinned_names
    r_entries,   \* sidebar: _session_entries, the session each shows and is_selected
    r_pc,        \* each update_sessions call in progress: where it is suspended
    r_list,      \* each call: the list object its loop iterates
    r_at,        \* each call: how many entries of its list it has mounted
    r_prev,      \* each call: prev_selected_name, "None" if none
    r_clean      \* history: no other handler wrote the sidebar since the call began

refreshVars == <<r_sessions, r_index, r_pins, r_entries, r_pc, r_list, r_at, r_prev,
                 r_clean>>

nonClientVars == <<widgetVars, keyVars, serverVars, viewVars, pasteVars, sidebarVars,
    appVars, handlerVars, refreshVars>>

nonWidgetVars == <<clientVars, keyVars, serverVars, viewVars, pasteVars, sidebarVars,
    appVars, handlerVars, refreshVars>>

nonKeyVars == <<clientVars, widgetVars, serverVars, viewVars, pasteVars, sidebarVars,
    appVars, handlerVars, refreshVars>>

nonServerVars == <<clientVars, widgetVars, keyVars, viewVars, pasteVars, sidebarVars,
    appVars, handlerVars, refreshVars>>

nonViewVars == <<clientVars, widgetVars, keyVars, serverVars, pasteVars, sidebarVars,
    appVars, handlerVars, refreshVars>>

nonPasteVars == <<clientVars, widgetVars, keyVars, serverVars, viewVars, sidebarVars,
    appVars, handlerVars, refreshVars>>

nonSidebarVars == <<clientVars, widgetVars, keyVars, serverVars, viewVars, pasteVars,
    appVars, handlerVars, refreshVars>>

\* what a handler of the application, which works on the sidebar too, leaves alone
nonAppVars == <<clientVars, widgetVars, keyVars, serverVars, viewVars, pasteVars,
    handlerVars, refreshVars>>

\* what a step of the paste handler, which runs beside the widget's other
\* handlers and tasks, leaves alone
nonHandlerVars == <<clientVars, keyVars, serverVars, viewVars, pasteVars, sidebarVars,
    appVars, refreshVars>>

\* what a step of a refresh or of a handler beside it leaves alone
nonRefreshVars == <<clientVars, widgetVars, keyVars, serverVars, viewVars, pasteVars,
    sidebarVars, appVars, handlerVars>>

vars == <<clientVars, widgetVars, keyVars, serverVars, viewVars, pasteVars,
          sidebarVars, appVars, handlerVars, refreshVars>>

(***************************************************************************)
(* Bounds of the model.                                                    *)
(***************************************************************************)
MaxErrTokens == 2   \* phrases in one error text
MaxLines == 2       \* lines in one list-sessions output
MaxFields == 7      \* colon-separated fields in one line
MaxPaneLines == 2   \* lines in one list-panes output
MaxTasks == 3       \* capture tasks created in one behaviour
NumDeleteTasks == 1 \* _delete_session tasks in flight at once

(***************************************************************************)
(* Python exceptions.  CancelledError derives from BaseException           *)
(* (python_requires >= 3.8), every other kind from Exception.              *)
(***************************************************************************)
TMuxErrors == {"TMuxNotRunningError", "SessionNotFoundError",
               "SessionCreationError", "CommandExecutionError"}

ExcKinds ==
    TMuxErrors \cup {"TMuxError", "ValueError", "AttributeError", "OSError",
                     "TimeoutError", "FileNotFoundError", "CancelledError"}

\* `except Exception`: everything but a cancellation.
ExceptException == ExcKinds \ {"CancelledError"}

\* a bare `except:` catches a cancellation too.
ExceptBare == ExcKinds

Return(v) == [exc |-> "none", ret |-> v]

Raise(e) == [exc |-> e, ret |-> "n/a"]

\* try: <r> except <catch>: return <onCatch>
TryExcept(r, catch, onCatch) ==
    IF r.exc # "none" /\ r.exc \in catch THEN Return(onCatch) ELSE r

(***************************************************************************)
(* The control tool's answer to one command: it exits with a code and an   *)
(* error text, or it outlives the timeout, or its binary is missing.       *)
(***************************************************************************)
ErrTokens == {"no server running", "No Server Running", "session not found",
              "Duplicate Session", "already exists", "can't find session", "on /tmp/tmux"}

\* str.lower() on one phrase
Lower(t) ==
    CASE t = "No Server Running" -> "no server running"
      [] t = "Duplicate Session" -> "duplicate session"
      [] OTHER -> t

SeqsUpTo(S, n) == UNION {[1..k -> S] : k \in 0..n}

ErrTexts == SeqsUpTo(ErrTokens, MaxErrTokens)

Resp(kind, rc, err) == [kind |-> kind, rc |-> rc, err |-> err]

Responses ==
    {Resp("exit", rc, e) : rc \in {0, 1}, e \in ErrTexts}
        \cup {Resp("timeout", 0, <<>>), Resp("missing", 0, <<>>)}

\* the responses scripted for operations that issue several commands
ScriptResponses ==
    {r \in Responses : r.err = <<>> \/ \E t \in ErrTokens : r.err = <<t>>}

RespOk == Resp("exit", 0, <<>>)

\* `phrase in error_msg.lower()`
InLower(phrase, err) == \E i \in 1..Len(err) : Lower(err[i]) = phrase

classify_error_case_sensitive(err) ==
    IF \E i \in 1..Len(err) : err[i] = "no server running" THEN "TMuxNotRunningError"
    ELSE IF \E i \in 1..Len(err) : err[i] = "session not found" THEN "SessionNotFoundError"
    ELSE IF (\E i \in 1..Len(err) : err[i] = "duplicate session")
            \/ (\E i \in 1..Len(err) : err[i] = "already exists") THEN "SessionCreationError"
    ELSE "CommandExecutionError"

classify_error_conflict_first(err) ==
    IF InLower("no server running", err) THEN "TMuxNotRunningError"
    ELSE IF InLower("duplicate session", err) \/ InLower("already exists", err)
         THEN "SessionCreationError"
    ELSE IF InLower("session not found", err) THEN "SessionNotFoundError"
    ELSE "CommandExecutionError"

\* tmux_interface.py:47-56
classify_error(err) ==
    IF InLower("no server running", err) THEN "TMuxNotRunningError"
    ELSE IF InLower("session not found", err) THEN "SessionNotFoundError"
    ELSE IF InLower("duplicate session", err) \/ InLower("already exists", err)
         THEN "SessionCreationError"
    ELSE "CommandExecutionError"

\* tmux_interface.py:31-63; `out` is the stripped stdout of the command
run_tmux_command(r, out) ==
    IF r.kind = "missing" THEN Raise("TMuxNotRunningError")
    ELSE IF r.kind = "timeout" THEN Raise("CommandExecutionError")
    ELSE IF r.rc # 0 THEN Raise(classify_error(r.err))
    ELSE Return(out)

Failed(r) == run_tmux_command(r, <<>>).exc # "none"

(***************************************************************************)
(* list-sessions output.  A line is the sequence of its colon-separated    *)
(* fields (str.split(':') never gives fewer than one field); a line whose  *)
(* only field is empty or white space is a blank line.                     *)
(***************************************************************************)
LineBases == {<<"a", "1", "1", "2", "0", "$0">>,
              <<"b", "1", "0", "2", "1", "$1">>,
              <<"a", "x", "1", "2", "0", "$0">>,
              <<"b", "1", "0", "x", "1", "$1">>}

\* the first n fields of a line; fields after the sixth are "z"
LineOf(base, n) == [i \in 1..n |-> IF i <= Len(base) THEN base[i] ELSE "z"]

BlankLines == {<<"">>, <<" ">>}

Lines == {LineOf(b, n) : b \in LineBases, n \in 1..MaxFields} \cup BlankLines

Outputs == SeqsUpTo(Lines, MaxLines)

\* `line.strip()` is empty
IsBlank(line) == line \in BlankLines

\* int(token) succeeds
IsIntToken(t) == t \in {"0", "1", "2"}

ParseInt(t) == CASE t = "0" -> 0 [] t = "1" -> 1 [] t = "2" -> 2 [] OTHER -> -1

RECURSIVE DropLeadingBlank(_)
DropLeadingBlank(lines) ==
    IF lines # <<>> /\ IsBlank(Head(lines)) THEN DropLeadingBlank(Tail(lines)) ELSE lines

RECURSIVE DropTrailingBlank(_)
DropTrailingBlank(lines) ==
    IF lines # <<>> /\ IsBlank(lines[Len(lines)])
    THEN DropTrailingBlank(SubSeq(lines, 1, Len(lines) - 1))
    ELSE lines

\* tmux_interface.py:58 stdout.decode('utf-8').strip(): white space and line
\* breaks at both ends of the whole output go
StripOutput(lines) == DropTrailingBlank(DropLeadingBlank(lines))

\* tmux_interface.py:79-94, the record built from one line of >= 6 fields
SessionRecord(parts) ==
    [name |-> parts[1], created |-> ParseInt(parts[2]), is_attached |-> (parts[3] = "1"),
     window_count |-> ParseInt(parts[4]), current_window |-> parts[5], session_id |-> parts[6]]

\* tmux_interface.py:73-96: the loop over output.split('\n')
RECURSIVE parse_session_lines(_, _)
parse_session_lines(lines, sessions) ==
    IF lines = <<>> THEN Return(sessions)
    ELSE LET line == Head(lines) IN
         IF IsBlank(line) \/ Len(line) < 6
         THEN parse_session_lines(Tail(lines), sessions)
         ELSE IF ~IsIntToken(line[2]) \/ ~IsIntToken(line[4])
         THEN Raise("ValueError")
         ELSE parse_session_lines(Tail(lines), Append(sessions, SessionRecord(line)))

\* tmux_interface.py:98 `except TMuxNotRunningError`
list_sessions_catch == {"TMuxNotRunningError"}

\* tmux_interface.py:65-100
list_sessions(r, out) ==
    LET o == run_tmux_command(r, StripOutput(out))
        body == IF o.exc # "none" THEN o ELSE parse_session_lines(o.ret, <<>>)
    IN TryExcept(body, list_sessions_catch, <<>>)

\* tmux_interface.py:102-133; the output is one line
get_session_info(r, line) ==
    LET o == run_tmux_command(r, line)
        body == IF o.exc # "none" THEN o
                ELSE IF IsBlank(o.ret) \/ Len(o.ret) < 6 THEN Return("None")
                ELSE IF ~IsIntToken(o.ret[2]) \/ ~IsIntToken(o.ret[4]) THEN Raise("ValueError")
                ELSE Return(SessionRecord(o.ret))
    IN TryExcept(body, {"SessionNotFoundError"}, "None")

\* tmux_interface.py:140
session_exists_catch == {"SessionNotFoundError", "TMuxNotRunningError", "CommandExecutionError"}

\* tmux_interface.py:135-141
session_exists(r) ==
    LET o == run_tmux_command(r, <<>>)
    IN TryExcept(IF o.exc # "none" THEN o ELSE Return(TRUE), session_exists_catch, FALSE)

\* the commands of a script run one after the other until one raises:
\* [exc, n] the exception (or "none") and how many commands were issued
RECURSIVE RunAll(_, _)
RunAll(script, n) ==
    IF n >= Len(script) THEN [exc |-> "none", n |-> n]
    ELSE LET o == run_tmux_command(script[n + 1], <<>>) IN
         IF o.exc # "none" THEN [exc |-> o.exc, n |-> n + 1] ELSE RunAll(script, n + 1)

create_session_catch_conflict_only == {"SessionCreationError"}

\* tmux_interface.py:157
create_session_catch == {"SessionCreationError", "CommandExecutionError"}

\* tmux_interface.py:143-158: new-session, then the two set-option commands
create_session(script) ==
    LET o == RunAll(script, 0)
    IN TryExcept(IF o.exc # "none" THEN Raise(o.exc) ELSE Return(TRUE), create_session_catch, FALSE)

create_session_cmds(script) ==
    SubSeq(<<"new-session", "set-option", "set-option">>, 1, RunAll(script, 0).n)

\* tmux_interface.py:181 and 189
switch_kill_catch == {"SessionNotFoundError", "CommandExecutionError"}

\* tmux_interface.py:176-182
switch_to_session(r) ==
    LET o == run_tmux_command(r, <<>>)
    IN TryExcept(IF o.exc # "none" THEN o ELSE Return(TRUE), switch_kill_catch, FALSE)

\* tmux_interface.py:184-190
kill_session(r) ==
    LET o == run_tmux_command(r, <<>>)
    IN TryExcept(IF o.exc # "none" THEN o ELSE Return(TRUE), switch_kill_catch, FALSE)

\* tmux_interface.py:192-198
rename_session(r) ==
    LET o == run_tmux_command(r, <<>>)
    IN TryExcept(IF o.exc # "none" THEN o ELSE Return(TRUE),
                 {"SessionNotFoundError", "SessionCreationError", "CommandExecutionError"}, FALSE)

\* tmux_interface.py:200-206, a bare except
is_tmux_running(r) ==
    LET o == run_tmux_command(r, <<>>)
    IN TryExcept(IF o.exc # "none" THEN o ELSE Return(TRUE), ExceptBare, FALSE)

\* tmux_interface.py:208-215: any failure is raised again as TMuxError
get_tmux_version(r) ==
    LET o == run_tmux_command(r, <<>>)
    IN IF o.exc \in ExceptException THEN Raise("TMuxError")
       ELSE IF o.exc # "none" THEN o ELSE Return("version")

\* tmux_interface.py:240-251
send_keys(r) ==
    LET o == run_tmux_command(r, <<>>)
    IN TryExcept(IF o.exc # "none" THEN o ELSE Return(TRUE), ExceptException, FALSE)

\* tmux_interface.py:253-261: an empty text sends nothing and succeeds
send_text(r, text) ==
    IF text = "" THEN Return(TRUE)
    ELSE LET o == run_tmux_command(r, <<>>)
         IN TryExcept(IF o.exc # "none" THEN o ELSE Return(TRUE), ExceptException, FALSE)


(***************************************************************************)
(* list-panes output: each line, stripped and split once on ':', is        *)
(* <<flag, pane id>>, or a single part when it holds no colon.             *)
(***************************************************************************)
PaneLines == {<<"1", "%1">>, <<"0", "%2">>, <<"0", "%3">>, <<"1", "">>, <<"junk">>, <<"">>}

PaneListings == SeqsUpTo(PaneLines, MaxPaneLines)

FirstActive_last(out) ==
    LET hits == {i \in 1..Len(out) : Len(out[i]) = 2 /\ out[i][1] = "1"}
    IN IF hits = {} THEN 0 ELSE CHOOSE i \in hits : \A j \in hits : i >= j

\* the index of the first line flagged active, 0 if there is none
FirstActive(out) ==
    LET hits == {i \in 1..Len(out) : Len(out[i]) = 2 /\ out[i][1] = "1"}
    IN IF hits = {} THEN 0 ELSE CHOOSE i \in hits : \A j \in hits : i <= j

\* tmux_interface.py:263-285
get_active_pane_id(r, listing) ==
    LET o == run_tmux_command(r, StripOutput(listing))
        out == o.ret
        body == IF o.exc # "none" THEN o
                ELSE IF out = <<>> THEN Return("None")
                ELSE IF FirstActive(out) # 0 THEN Return(out[FirstActive(out)][2])
                ELSE IF Len(out[1]) = 2 THEN Return(out[1][2])
                ELSE Return("None")
    IN TryExcept(body, ExceptException, "None")

\* Python truthiness of an Optional[str]
Truthy(v) == v # "None" /\ v # ""

ResizeResponses == {RespOk, Resp("exit", 1, <<"can't find session">>),
                    Resp("timeout", 0, <<>>), Resp("missing", 0, <<>>)}

\* tmux_interface.py:217-238.  script = <<resize-window, list-panes,
\* resize-pane, refresh-client>> responses; [res, cmds]
resize_session(script, listing) ==
    LET m1 == run_tmux_command(script[1], <<>>)
        pane == get_active_pane_id(script[2], listing)
        m2 == run_tmux_command(script[3], <<>>)
        m3 == run_tmux_command(script[4], <<>>)
    IN IF m1.exc = "none"
       THEN [res |-> Return(TRUE), cmds |-> <<"resize-window">>]
       ELSE IF m1.exc \notin ExceptException
       THEN [res |-> m1, cmds |-> <<"resize-window">>]
       ELSE IF ~Truthy(pane.ret)
       THEN [res |-> Return(FALSE), cmds |-> <<"resize-window", "list-panes">>]
       ELSE IF m2.exc = "none"
       THEN [res |-> Return(TRUE), cmds |-> <<"resize-window", "list-panes", "resize-pane">>]
       ELSE [res |-> Return(m3.exc = "none"),
             cmds |-> <<"resize-window", "list-panes", "resize-pane", "refresh-client">>]

PidOutputs == {"", "abc", "0", "123"}

\* tmux_interface.py:287-300
get_pane_pid(r, out) ==
    LET o == run_tmux_command(r, out)
        body == IF o.exc # "none" THEN o
                ELSE IF o.ret = "" \/ o.ret = "abc" THEN Return("None")
                ELSE Return(o.ret)
    IN TryExcept(body, ExceptException, "None")

\* the kernel's answers to the calls that deliver a signal
OsAnswers == [open : {"ok", "err"}, tcgetpgrp : {"err", "zero", "pos"},
              getpgid : {"ok", "err"}, killpg : {"ok", "err"}]

OsOk == [open |-> "ok", tcgetpgrp |-> "pos", getpgid |-> "ok", killpg |-> "ok"]

\* tmux_interface.py:302-312
send_signal_to_pane(r, out, os) ==
    LET pid == get_pane_pid(r, out).ret
        body == IF pid = "None" \/ pid = "0" THEN Return(FALSE)
                ELSE IF os.getpgid = "err" \/ os.killpg = "err" THEN Raise("OSError")
                ELSE Return(TRUE)
    IN TryExcept(body, ExceptException, FALSE)

TtyOutputs == {"", "/dev/pts/1"}

\* tmux_interface.py:314-322
get_pane_tty(r, out) ==
    LET o == run_tmux_command(r, out)
        body == IF o.exc # "none" THEN o
                ELSE IF o.ret = "" THEN Return("None") ELSE Return(o.ret)
    IN TryExcept(body, ExceptException, "None")

\* tmux_interface.py:324-351
send_signal_to_foreground(r, out, os) ==
    LET tty == get_pane_tty(r, out).ret
        body == IF tty = "None" THEN Return(FALSE)
                ELSE IF os.open = "err" \/ os.tcgetpgrp = "err" THEN Raise("OSError")
                ELSE IF os.tcgetpgrp = "zero" THEN Return(FALSE)
                ELSE IF os.killpg = "err" THEN Raise("OSError")
                ELSE Return(TRUE)
    IN TryExcept(body, ExceptException, FALSE)

(***************************************************************************)
(* The client's operations as actions: each call draws the tool's          *)
(* responses and records what the operation issued, returned and raised.   *)
(***************************************************************************)
\* The client keeps nothing from one call to the next (its only field written
\* after construction is none), so a behaviour is one call from the initial state.
Called(op, script, out, res, cmds) ==
    /\ c_op' = op
    /\ c_script' = script
    /\ c_out' = out
    /\ c_res' = res
    /\ c_cmds' = cmds
    /\ UNCHANGED nonClientVars

\* _run_tmux_command called directly, as the capture loop and the copy
\* helper do (terminal_widget.py:256, 382)
RunTmuxCommand ==
    /\ c_op = "none"
    /\ \E r \in Responses, out \in Outputs :
        /\ out # <<>> => r = RespOk
        /\ Called("_run_tmux_command", <<r>>, out, run_tmux_command(r, StripOutput(out)),
                  <<"capture-pane">>)

ListSessions ==
    /\ c_op = "none"
    /\ \E r \in Responses, out \in Outputs :
        /\ out # <<>> => r = RespOk
        /\ Called("list_sessions", <<r>>, out, list_sessions(r, out), <<"list-sessions">>)

GetSessionInfo ==
    /\ c_op = "none"
    /\ \E r \in Responses, line \in Lines :
        /\ line # <<"">> => r = RespOk
        /\ Called("get_session_info", <<r>>, line, get_session_info(r, line), <<"display-message">>)

SessionExists ==
    /\ c_op = "none"
    /\ \E r \in Responses :
        Called("session_exists", <<r>>, <<>>, session_exists(r), <<"has-session">>)

CreateSession ==
    /\ c_op = "none"
    /\ \E script \in [1..3 -> ScriptResponses] :
        Called("create_session", script, <<>>, create_session(script), create_session_cmds(script))

SwitchToSession ==
    /\ c_op = "none"
    /\ \E r \in Responses :
        Called("switch_to_session", <<r>>, <<>>, switch_to_session(r), <<"switch-client">>)

KillSession ==
    /\ c_op = "none"
    /\ \E r \in Responses :
        Called("kill_session", <<r>>, <<>>, kill_session(r), <<"kill-session">>)

RenameSession ==
    /\ c_op = "none"
    /\ \E r \in Responses :
        Called("rename_session", <<r>>, <<>>, rename_session(r), <<"rename-session">>)

IsTmuxRunning ==
    /\ c_op = "none"
    /\ \E r \in Responses :
        Called("is_tmux_running", <<r>>, <<>>, is_tmux_running(r), <<"list-sessions">>)

GetTmuxVersion ==
    /\ c_op = "none"
    /\ \E r \in Responses :
        Called("get_tmux_version", <<r>>, <<>>, get_tmux_version(r), <<"-V">>)

ResizeSession ==
    /\ c_op = "none"
    /\ \E script \in [1..4 -> ResizeResponses], listing \in PaneListings :
        /\ listing # <<>> => script[2] = RespOk
        /\ Called("resize_session", script, listing,
                  resize_session(script, listing).res, resize_session(script, listing).cmds)

SendKeys ==
    /\ c_op = "none"
    /\ \E r \in Responses :
        Called("send_keys", <<r>>, <<>>, send_keys(r), <<"send-keys">>)

SendText ==
    /\ c_op = "none"
    /\ \E r \in Responses, text \in {"", "x"} :
        /\ text = "" => r = RespOk
        /\ Called("send_text", <<r>>, text, send_text(r, text),
                  IF text = "" THEN <<>> ELSE <<"send-keys">>)

GetActivePaneId ==
    /\ c_op = "none"
    /\ \E r \in Responses, listing \in PaneListings :
        /\ listing # <<>> => r = RespOk
        /\ Called("get_active_pane_id", <<r>>, listing, get_active_pane_id(r, listing), <<"list-panes">>)

GetPanePid ==
    /\ c_op = "none"
    /\ \E r \in Responses, out \in PidOutputs :
        /\ out # "" => r = RespOk
        /\ Called("get_pane_pid", <<r>>, out, get_pane_pid(r, out), <<"display-message">>)

GetPaneTty ==
    /\ c_op = "none"
    /\ \E r \in Responses, out \in TtyOutputs :
        /\ out # "" => r = RespOk
        /\ Called("get_pane_tty", <<r>>, out, get_pane_tty(r, out), <<"display-message">>)

SendSignalToPane ==
    /\ c_op = "none"
    /\ \E r \in ScriptResponses, out \in PidOutputs, os \in OsAnswers :
        /\ out # "" => r = RespOk
        /\ os.open = "ok" /\ os.tcgetpgrp = "pos"
        /\ Called("send_signal_to_pane", <<r>>, <<out, os>>, send_signal_to_pane(r, out, os),
                  <<"display-message">>)

SendSignalToForeground ==
    /\ c_op = "none"
    /\ \E r \in ScriptResponses, out \in TtyOutputs, os \in OsAnswers :
        /\ out # "" => r = RespOk
        /\ os.getpgid = "ok"
        /\ Called("send_signal_to_foreground", <<r>>, <<out, os>>,
                  send_signal_to_foreground(r, out, os), <<"display-message">>)

ClientInit ==
    /\ c_op = "none"
    /\ c_script = <<>>
    /\ c_out = <<>>
    /\ c_res = Return("n/a")
    /\ c_cmds = <<>>

ClientNext ==
    \/ RunTmuxCommand
    \/ ListSessions
    \/ GetSessionInfo
    \/ SessionExists
    \/ CreateSession
    \/ SwitchToSession
    \/ KillSession
    \/ RenameSession
    \/ IsTmuxRunning
    \/ GetTmuxVersion
    \/ ResizeSession
    \/ SendKeys
    \/ SendText
    \/ GetActivePaneId
    \/ GetPanePid
    \/ GetPaneTty
    \/ SendSignalToPane
    \/ SendSignalToForeground


(***************************************************************************)
(* Claims about the client, checked under ClientSpec.                      *)
(***************************************************************************)
\* what the tool reports for one command, in the words of the error taxonomy
Reports(r) ==
    IF r.kind = "missing" THEN "TMuxNotRunningError"
    ELSE IF r.kind = "timeout" THEN "CommandExecutionError"
    ELSE IF r.rc = 0 THEN "none"
    ELSE classify_error(r.err)

\* the first command of the call's script that fails, 0 if none does
FirstFailure(script) ==
    LET bad == {i \in 1..Len(script) : Reports(script[i]) # "none"}
    IN IF bad = {} THEN 0 ELSE CHOOSE i \in bad : \A j \in bad : i <= j

ReturnsFalse == c_res.exc = "none" /\ c_res.ret = FALSE

\* resize_session: which of the three methods were attempted
Attempted(cmd) == \E i \in 1..Len(c_cmds) : c_cmds[i] = cmd

ResizeStage1Ok == Reports(c_script[1]) = "none"

ResizeStage2Ok ==
    /\ Truthy(get_active_pane_id(c_script[2], c_out).ret)
    /\ Reports(c_script[3]) = "none"

ResizeStage3Ok == Reports(c_script[4]) = "none"

\* C4: resize_session tries resize-window, resize-pane on the active pane and
\* refresh-client in that order; a later method is attempted exactly when all
\* earlier ones failed (an unresolvable active pane is a failure of the second);
\* it returns true at the first success and false only after all three failed.
C4_ResizeCascade ==
    c_op = "resize_session" =>
        /\ c_res.exc = "none"
        /\ Attempted("resize-window")
        /\ Attempted("list-panes") <=> ~ResizeStage1Ok
        /\ Attempted("resize-pane") => Attempted("list-panes")
        /\ Attempted("refresh-client") <=> (~ResizeStage1Ok /\ ~ResizeStage2Ok)
        /\ c_res.ret = TRUE <=>
              \/ ResizeStage1Ok
              \/ ~ResizeStage1Ok /\ ResizeStage2Ok
              \/ ~ResizeStage1Ok /\ ~ResizeStage2Ok /\ ResizeStage3Ok
        /\ c_res.ret = FALSE => Attempted("refresh-client")

\* C6: no client operation other than the version probe lets an error of the
\* control tool through to its caller.
C6_NoErrorPropagates ==
    (c_op # "none" /\ c_op # "get_tmux_version") => c_res.exc = "none"

\* C7: create_session returns false, raising nothing, on a creation conflict or
\* an execution failure; rename, kill and switch return false, raising
\* nothing, on session-not-found or an execution failure.
C7_FalseOnRecoverable ==
    /\ (/\ c_op = "create_session"
        /\ FirstFailure(c_script) # 0
        /\ Reports(c_script[FirstFailure(c_script)])
              \in {"SessionCreationError", "CommandExecutionError"})
          => ReturnsFalse
    /\ (/\ c_op \in {"rename_session", "kill_session", "switch_to_session"}
        /\ Reports(c_script[1]) \in {"SessionNotFoundError", "CommandExecutionError"})
          => ReturnsFalse

C7_Witness ==
    /\ c_op = "create_session"
    /\ c_script[1] = RespOk
    /\ c_script[2].kind = "timeout"
    /\ ReturnsFalse

\* the tool's error text says "no server running", in whatever letter case
SaysNoServer(err) ==
    \E i \in 1..Len(err) : err[i] \in {"no server running", "No Server Running"}

NotRunningDetected(r) ==
    \/ r.kind = "missing"
    \/ r.kind = "exit" /\ r.rc # 0 /\ SaysNoServer(r.err)

\* C8: list_sessions returns the empty sequence, raising nothing, whenever the
\* server-not-running condition is detected.
C8_ListEmptyWhenNotRunning ==
    (c_op = "list_sessions" /\ NotRunningDetected(c_script[1]))
        => (c_res.exc = "none" /\ c_res.ret = <<>>)

C8_Witness ==
    /\ c_op = "list_sessions"
    /\ c_script[1].kind = "exit"
    /\ c_script[1].rc # 0
    /\ c_script[1].err = <<"No Server Running", "on /tmp/tmux">>
    /\ c_res = Return(<<>>)

\* C9: session_exists returns true exactly when has-session succeeds and has
\* false, raising nothing, for every kind of failure of the tool.
C9_ExistsNeverRaises ==
    c_op = "session_exists" =>
        /\ c_res.exc = "none"
        /\ c_res.ret = (c_script[1].kind = "exit" /\ c_script[1].rc = 0)

\* the records the listing should give: one for each non-blank line of at
\* least six fields, in order
ExpectedRecord(parts) ==
    [name |-> parts[1], is_attached |-> (parts[3] = "1"), window_count |-> parts[4],
     current_window |-> parts[5], session_id |-> parts[6]]

WideLines(out) == SelectSeq(out, LAMBDA line : ~IsBlank(line) /\ Len(line) >= 6)

ShownRecord(rec) ==
    [name |-> rec.name, is_attached |-> rec.is_attached,
     window_count |-> CHOOSE t \in {"0", "1", "2"} : ParseInt(t) = rec.window_count,
     current_window |-> rec.current_window, session_id |-> rec.session_id]

\* C10: list_sessions returns exactly one record for each non-blank line of at
\* least six fields, in order, built from fields 1, 3, 4, 5 and 6; lines of
\* fewer fields are dropped, raising nothing and leaving the other lines' records.
C10_OneRecordPerWideLine ==
    (c_op = "list_sessions" /\ Reports(c_script[1]) = "none") =>
        /\ c_res.exc = "none"
        /\ Len(c_res.ret) = Len(WideLines(c_out))
        /\ \A i \in 1..Len(c_res.ret) :
              ShownRecord(c_res.ret[i]) = ExpectedRecord(WideLines(c_out)[i])


(***************************************************************************)
(* The terminal widget: attach (set_session), detach (clear_session, run   *)
(* by a _delete_session task), on_unmount and the capture tasks, as        *)
(* coroutines of one asyncio event loop.  A step runs a coroutine from one *)
(* suspension point to the next.                                           *)
(***************************************************************************)
Sessions == {"s1", "s2"}

TaskIds == 1..MaxTasks

DeleteIds == 1..NumDeleteTasks

NoSessionMsg == [kind |-> "no_session", sess |-> "None"]   \* "No session selected"

ConnectedMsg(s) == [kind |-> "connected", sess |-> s]      \* "Connected to session: <s>"

ActiveMsg(s) == [kind |-> "active", sess |-> s]            \* "Session '<s>' is active"

PaneOutput(s) == [kind |-> "output", sess |-> s]           \* captured text of a pane of s

\* terminal_widget.py:252 `self._target_pane or (name if current_session else "")`
Target(pane, sess) ==
    IF pane # "None" THEN [kind |-> "pane", sess |-> pane]
    ELSE IF sess # "None" THEN [kind |-> "session", sess |-> sess]
    ELSE [kind |-> "empty", sess |-> "None"]

NoTarget == [kind |-> "empty", sess |-> "None"]

(***************************************************************************)
(* The except clauses around each suspension point of the capture loop,    *)
(* innermost first: what each catches and where the loop goes on.          *)
(***************************************************************************)
Handler(catch, to) == [catch |-> catch, to |-> to]

\* terminal_widget.py:274-278, around the whole loop
LoopChain == <<Handler({"CancelledError"}, "reraise"), Handler(ExceptException, "end")>>

\* tmux_interface.py:60-63: the two handlers of _run_tmux_command raise anew
RunTmuxChain ==
    <<Handler({"TimeoutError"}, "reraise"), Handler({"FileNotFoundError"}, "reraise")>>

\* around `await get_active_pane_id(...)`: tmux_interface.py:284,
\* terminal_widget.py:250 and 267
ResolveChain ==
    RunTmuxChain
    \o <<Handler(ExceptException, "pane_none"), Handler(ExceptException, "keep_target"),
         Handler(ExceptException, "sleep")>>
    \o LoopChain

CaptureChain_bare_except ==
    RunTmuxChain
    \o <<Handler(ExceptBare, "fallback"), Handler(ExceptException, "sleep")>>
    \o LoopChain

CaptureChain_unguarded == RunTmuxChain \o LoopChain

\* around `await _run_tmux_command("capture-pane", ...)`: tmux_interface.py:60-63,
\* terminal_widget.py:259 and 267
CaptureChain ==
    RunTmuxChain
    \o <<Handler(ExceptException, "fallback"), Handler(ExceptException, "sleep")>>
    \o LoopChain

\* around `await asyncio.sleep(0.1)`
SleepChain == LoopChain

\* where an exception raised at a suspension point is caught: the `to` of the
\* first handler that catches it and does not raise it again, else "propagate"
RECURSIVE Unwind(_, _)
Unwind(e, chain) ==
    IF chain = <<>> THEN "propagate"
    ELSE IF e \in Head(chain).catch /\ Head(chain).to # "reraise" THEN Head(chain).to
    ELSE Unwind(e, Tail(chain))

\* the handlers outside the one that sends the loop to `to`
RECURSIVE Outside(_, _)
Outside(chain, to) ==
    IF chain = <<>> THEN <<>>
    ELSE IF Head(chain).to = to THEN Tail(chain)
    ELSE Outside(Tail(chain), to)

(***************************************************************************)
(* Scheduling.  A coroutine resumed by the end of the task it awaits, and  *)
(* the first step of a task just created, are already in the loop's ready  *)
(* queue: they run before any subprocess completion, timer or new message  *)
(* is handled.                                                             *)
(***************************************************************************)
Done(t) == t \in TaskIds /\ t_pc[t] = "done"

Live(t) == t_pc[t] \notin {"unborn", "done"}

\* `await self._capture_task` suspends the caller unless the task is done
\* (terminal_widget.py:161-164, 171-174, 208-211)
must_await(t) == ~Done(t)

NoReady ==
    /\ waitq = <<>> \/ ~Done(w_task)
    /\ \A t \in TaskIds : t_pc[t] # "new" /\ ~t_pending[t]
    /\ \A d \in DeleteIds : d_pc[d] # "start"

Ready(h) == waitq # <<>> /\ Head(waitq) = h /\ Done(w_task)

HasTask_never == FALSE

\* `if self._capture_task:` (terminal_widget.py:159, 169, 206)
HasTask == w_task # 0

\* Task.cancel(): no effect on a task that is done
RequestCancel(t) ==
    IF ~HasTask \/ Done(t) THEN UNCHANGED <<t_pending, t_cancel>>
    ELSE /\ t_pending' = [t_pending EXCEPT ![t] = TRUE]
         /\ t_cancel' = [t_cancel EXCEPT ![t] = TRUE]

Suspends == HasTask /\ must_await(w_task)


AttachH == <<"attach", 0>>

UnmountH == <<"unmount", 0>>

DeleteH(d) == <<"delete", d>>

\* the id the next asyncio.create_task gets
NextTask == Cardinality({t \in TaskIds : t_pc[t] # "unborn"}) + 1

\* terminal_widget.py:202 asyncio.create_task(self._capture_session_output())
CreateTask ==
    /\ w_task' = NextTask
    /\ t_pc' = [t_pc EXCEPT ![NextTask] = "new"]

\* terminal_widget.py:213-224, the part of clear_session after the await
ClearRest ==
    /\ w_session' = "None"
    /\ w_pane' = "None"
    /\ w_content' = NoSessionMsg

(***************************************************************************)
(* set_session, called by action_attach_session (tmux_app.py:468-476).     *)
(* Actions run one at a time on the application's message pump, so a new   *)
(* attach or delete request starts only when the previous action returned. *)
(***************************************************************************)
\* terminal_widget.py:166-176
AttachStart(s) ==
    /\ a_pc = "idle"
    /\ u_pc = "mounted"
    /\ NoReady
    /\ NextTask <= MaxTasks
    /\ RequestCancel(w_task)
    /\ a_sess' = s
    /\ IF Suspends
       THEN /\ a_pc' = "await_old"
            /\ waitq' = Append(waitq, AttachH)
            /\ UNCHANGED w_session
       ELSE /\ a_pc' = "await_pane"
            /\ w_session' = s
            /\ UNCHANGED waitq
    /\ writer' = 0
    /\ UNCHANGED <<w_pane, w_content, w_task, t_pc, t_exit, t_sess, t_target, t_last,
                   d_pc, d_name, u_pc>>
    /\ UNCHANGED nonWidgetVars

\* terminal_widget.py:172-180, resumed by the end of the old capture task
AttachResume ==
    /\ a_pc = "await_old"
    /\ Ready(AttachH)
    /\ waitq' = Tail(waitq)
    /\ w_session' = a_sess
    /\ a_pc' = "await_pane"
    /\ writer' = 0
    /\ UNCHANGED <<w_pane, w_content, w_task, taskVars, a_sess, d_pc, d_name, u_pc>>
    /\ UNCHANGED nonWidgetVars

\* terminal_widget.py:180-199: the pane is stored, the frame set, and
\* app.on_resize awaits resize_session if a session is attached (tmux_app.py:425-442)
AttachPaneDone ==
    /\ a_pc = "await_pane"
    /\ NoReady
    /\ \E p \in {"None", a_sess} : w_pane' = p
    /\ w_content' = ConnectedMsg(a_sess)
    /\ IF w_session # "None"
       THEN /\ a_pc' = "await_resize"
            /\ UNCHANGED <<w_task, t_pc>>
       ELSE /\ CreateTask
            /\ a_pc' = "idle"
    /\ writer' = 0
    /\ UNCHANGED <<w_session, t_pending, t_cancel, t_exit, t_sess, t_target, t_last,
                   a_sess, d_pc, d_name, u_pc, waitq>>
    /\ UNCHANGED nonWidgetVars

\* terminal_widget.py:199-202, then hide_sidebar awaits resize_session if a
\* session is attached (tmux_app.py:475, 593-609)
AttachResizeDone ==
    /\ a_pc = "await_resize"
    /\ NoReady
    /\ CreateTask
    /\ a_pc' = IF w_session # "None" THEN "await_hide" ELSE "idle"
    /\ writer' = 0
    /\ UNCHANGED <<w_session, w_pane, w_content, t_pending, t_cancel, t_exit, t_sess,
                   t_target, t_last, a_sess, d_pc, d_name, u_pc, waitq>>
    /\ UNCHANGED nonWidgetVars

\* tmux_app.py:475-476: the sidebar is hidden, the terminal focused
AttachHideDone ==
    /\ a_pc = "await_hide"
    /\ NoReady
    /\ a_pc' = "idle"
    /\ writer' = 0
    /\ UNCHANGED <<w_session, w_pane, w_content, w_task, taskVars, a_sess, d_pc, d_name,
                   u_pc, waitq>>
    /\ UNCHANGED nonWidgetVars

(***************************************************************************)
(* action_terminal_interrupt (tmux_app.py:518-522), the binding of ctrl+c, *)
(* an action on the application's message pump like the attach: it calls   *)
(* send_ctrl_c (terminal_widget.py:670-675), which awaits _resolve_target  *)
(* and then send_keys.  The focus is not modelled: the action may run      *)
(* whenever a session is attached.                                         *)
(***************************************************************************)
\* terminal_widget.py:672-674, 282-284: current_session is set, its name is
\* read and get_active_pane_id awaited
TerminalInterruptStart ==
    /\ a_pc = "idle"
    /\ u_pc = "mounted"
    /\ NoReady
    /\ w_session # "None"
    /\ a_pc' = "await_target"
    /\ a_sess' = w_session
    /\ writer' = 0
    /\ UNCHANGED <<w_session, w_pane, w_content, w_task, taskVars, d_pc, d_name,
                   u_pc, waitq>>
    /\ UNCHANGED nonWidgetVars

\* terminal_widget.py:285-290 _resolve_target: a resolved pane, of the session
\* whose name was read before the await, is stored
ResolveTargetDone ==
    /\ a_pc = "await_target"
    /\ NoReady
    /\ \E p \in {"None", a_sess} : w_pane' = IF p # "None" THEN p ELSE w_pane
    /\ a_pc' = "await_send"
    /\ writer' = 0
    /\ UNCHANGED <<w_session, w_content, w_task, taskVars, a_sess, d_pc, d_name, u_pc, waitq>>
    /\ UNCHANGED nonWidgetVars

\* terminal_widget.py:675: send_keys returned
TerminalInterruptDone ==
    /\ a_pc = "await_send"
    /\ NoReady
    /\ a_pc' = "idle"
    /\ writer' = 0
    /\ UNCHANGED <<w_session, w_pane, w_content, w_task, taskVars, a_sess, d_pc, d_name,
                   u_pc, waitq>>
    /\ UNCHANGED nonWidgetVars

(***************************************************************************)
(* _delete_session, a task of its own (tmux_app.py:529-569), and the       *)
(* clear_session it calls when the session shown is the one deleted.       *)
(***************************************************************************)
\* tmux_app.py:529-539 action_delete_session
DeleteRequest(d, s) ==
    /\ d_pc[d] = "idle"
    /\ \A k \in DeleteIds : k < d => d_pc[k] # "idle"
    /\ a_pc = "idle"
    /\ u_pc = "mounted"
    /\ NoReady
    /\ d_pc' = [d_pc EXCEPT ![d] = "start"]
    /\ d_name' = [d_name EXCEPT ![d] = s]
    /\ writer' = 0
    /\ UNCHANGED <<w_session, w_pane, w_content, w_task, taskVars, a_pc, a_sess, u_pc, waitq>>
    /\ UNCHANGED nonWidgetVars

\* tmux_app.py:549-557 and terminal_widget.py:204-211
DeleteStart(d) ==
    /\ d_pc[d] = "start"
    /\ IF w_session # "None" /\ w_session = d_name[d]
       THEN /\ RequestCancel(w_task)
            /\ IF Suspends
               THEN /\ d_pc' = [d_pc EXCEPT ![d] = "await_old"]
                    /\ waitq' = Append(waitq, DeleteH(d))
                    /\ UNCHANGED <<w_session, w_pane, w_content>>
               ELSE /\ ClearRest
                    /\ d_pc' = [d_pc EXCEPT ![d] = "await_kill"]
                    /\ UNCHANGED waitq
       ELSE /\ d_pc' = [d_pc EXCEPT ![d] = "await_kill"]
            /\ UNCHANGED <<w_session, w_pane, w_content, waitq, t_pending, t_cancel>>
    /\ writer' = 0
    /\ UNCHANGED <<w_task, t_pc, t_exit, t_sess, t_target, t_last, a_pc, a_sess, d_name, u_pc>>
    /\ UNCHANGED nonWidgetVars

\* terminal_widget.py:209-224, then tmux_app.py:557
DeleteResume(d) ==
    /\ d_pc[d] = "await_old"
    /\ Ready(DeleteH(d))
    /\ waitq' = Tail(waitq)
    /\ ClearRest
    /\ d_pc' = [d_pc EXCEPT ![d] = "await_kill"]
    /\ writer' = 0
    /\ UNCHANGED <<w_task, taskVars, a_pc, a_sess, d_name, u_pc>>
    /\ UNCHANGED nonWidgetVars

\* tmux_app.py:557-569: kill_session returned; the widget is not touched again
DeleteKillDone(d) ==
    /\ d_pc[d] = "await_kill"
    /\ NoReady
    /\ d_pc' = [d_pc EXCEPT ![d] = "idle"]
    /\ d_name' = [d_name EXCEPT ![d] = "None"]
    /\ writer' = 0
    /\ UNCHANGED <<w_session, w_pane, w_content, w_task, taskVars, a_pc, a_sess, u_pc, waitq>>
    /\ UNCHANGED nonWidgetVars

\* terminal_widget.py:157-164 on_unmount
UnmountStart ==
    /\ u_pc = "mounted"
    /\ a_pc = "idle"
    /\ NoReady
    /\ RequestCancel(w_task)
    /\ IF Suspends
       THEN /\ u_pc' = "await_old"
            /\ waitq' = Append(waitq, UnmountH)
       ELSE /\ u_pc' = "unmounted"
            /\ UNCHANGED waitq
    /\ writer' = 0
    /\ UNCHANGED <<w_session, w_pane, w_content, w_task, t_pc, t_exit, t_sess, t_target,
                   t_last, a_pc, a_sess, d_pc, d_name>>
    /\ UNCHANGED nonWidgetVars

\* terminal_widget.py:162-164
UnmountResume ==
    /\ u_pc = "await_old"
    /\ Ready(UnmountH)
    /\ waitq' = Tail(waitq)
    /\ u_pc' = "unmounted"
    /\ writer' = 0
    /\ UNCHANGED <<w_session, w_pane, w_content, w_task, taskVars, a_pc, a_sess, d_pc, d_name>>
    /\ UNCHANGED nonWidgetVars


(***************************************************************************)
(* _capture_session_output (terminal_widget.py:237-278), one action per    *)
(* await.  A step of task t is described by the record of what it leaves   *)
(* behind: its next position, its exit reason, the target it will capture, *)
(* the widget's target pane and frame, and whether it wrote either.        *)
(***************************************************************************)
Keep(t) ==
    [pc |-> t_pc[t], exit |-> t_exit[t], sess |-> "None", target |-> NoTarget,
     last |-> t_last[t], pane |-> w_pane, content |-> w_content, wrote |-> FALSE]

Upd(t, r) ==
    /\ t_pc' = [t_pc EXCEPT ![t] = r.pc]
    /\ t_exit' = [t_exit EXCEPT ![t] = r.exit]
    /\ t_sess' = [t_sess EXCEPT ![t] = r.sess]
    /\ t_target' = [t_target EXCEPT ![t] = r.target]
    /\ t_last' = [t_last EXCEPT ![t] = r.last]
    /\ t_pending' = [t_pending EXCEPT ![t] = FALSE]
    /\ w_pane' = r.pane
    /\ w_content' = r.content
    /\ writer' = IF r.wrote THEN t ELSE 0
    /\ UNCHANGED <<w_session, w_task, t_cancel, a_pc, a_sess, d_pc, d_name, u_pc, waitq>>
    /\ UNCHANGED nonWidgetVars

\* terminal_widget.py:274-278: how the loop ends when e leaves the loop body
Ended(t, e) ==
    [Keep(t) EXCEPT !.pc = "done", !.last = "none",
                    !.exit = IF e = "CancelledError" THEN "cancelled" ELSE "error"]

\* terminal_widget.py:243-252: the top of the loop
LoopHead(t) ==
    IF w_session # "None"
    THEN [Keep(t) EXCEPT !.pc = "resolve", !.sess = w_session]
    ELSE [Keep(t) EXCEPT !.pc = "capture", !.target = Target(w_pane, w_session)]

\* terminal_widget.py:239-243
TaskStart(t) ==
    /\ t_pc[t] = "new"
    /\ IF t_pending[t] THEN Upd(t, Ended(t, "CancelledError"))
       ELSE IF w_session = "None"
       THEN Upd(t, [Keep(t) EXCEPT !.pc = "done", !.exit = "no_session"])
       ELSE Upd(t, LoopHead(t))

ResolveOutcomes == {"pane", "nopane"} \cup TMuxErrors

\* terminal_widget.py:247-252: where the pane resolution leaves the task
AfterResolve(t, to, e) ==
    CASE to = "pane" ->
            [Keep(t) EXCEPT !.pc = "capture", !.pane = t_sess[t], !.wrote = TRUE,
                            !.target = Target(t_sess[t], w_session), !.last = "ok"]
      [] to = "pane_none" ->
            [Keep(t) EXCEPT !.pc = "capture", !.pane = "None", !.wrote = TRUE,
                            !.target = Target("None", w_session), !.last = "failed"]
      [] to = "keep_target" ->
            [Keep(t) EXCEPT !.pc = "capture", !.target = Target(w_pane, w_session),
                            !.last = IF e = "CancelledError" THEN @ ELSE "failed"]
      [] to = "sleep" ->
            [Keep(t) EXCEPT !.pc = "sleep",
                            !.last = IF e = "CancelledError" THEN @ ELSE "failed"]
      [] OTHER -> Ended(t, e)

\* terminal_widget.py:249: get_active_pane_id returned, raised, or the
\* cancellation requested meanwhile is thrown at the await
TaskResolveDone(t) ==
    /\ t_pc[t] = "resolve"
    /\ t_pending[t] \/ NoReady
    /\ \E o \in ResolveOutcomes :
        LET e == IF t_pending[t] THEN "CancelledError" ELSE o
            to == IF e = "pane" THEN "pane"
                  ELSE IF e = "nopane" THEN "pane_none"
                  ELSE Unwind(e, ResolveChain)
        IN Upd(t, AfterResolve(t, to, e))

CaptureOutcomes == {"output", "empty"} \cup TMuxErrors

\* terminal_widget.py:254-269: where the capture leaves the task.  The
\* fallback text reads current_session.name, an AttributeError when the
\* session is None, raised inside the handler and so caught further out.
AfterCapture(t, to, e) ==
    LET out == IF to = "fallback" /\ w_session = "None"
               THEN Unwind("AttributeError", Outside(CaptureChain, "fallback"))
               ELSE to
        last == IF e \in TMuxErrors THEN "failed" ELSE t_last[t]
    IN CASE out = "output" ->
               [Keep(t) EXCEPT !.pc = "sleep", !.wrote = TRUE,
                               !.content = PaneOutput(t_target[t].sess)]
         [] out = "fallback" ->
               [Keep(t) EXCEPT !.pc = "sleep", !.wrote = TRUE, !.last = last,
                               !.content = ActiveMsg(w_session)]
         [] out \in {"empty", "sleep"} -> [Keep(t) EXCEPT !.pc = "sleep", !.last = last]
         [] OTHER -> Ended(t, IF out = to THEN e ELSE "AttributeError")

\* terminal_widget.py:256-265
TaskCaptureDone(t) ==
    /\ t_pc[t] = "capture"
    /\ t_pending[t] \/ NoReady
    /\ \E o \in CaptureOutcomes :
        LET e == IF t_pending[t] THEN "CancelledError" ELSE o
            to == IF e \in {"output", "empty"} THEN e ELSE Unwind(e, CaptureChain)
        IN Upd(t, AfterCapture(t, to, e))

\* terminal_widget.py:272, then back to the top of the loop
TaskSleepDone(t) ==
    /\ t_pc[t] = "sleep"
    /\ t_pending[t] \/ NoReady
    /\ IF t_pending[t]
       THEN LET to == Unwind("CancelledError", SleepChain)
            IN Upd(t, Ended(t, IF to = "end" THEN "Exception" ELSE "CancelledError"))
       ELSE Upd(t, LoopHead(t))

\* terminal_widget.py:23-41: a mounted widget with no session and no task
WidgetInit ==
    /\ w_session = "None"
    /\ w_pane = "None"
    /\ w_content = NoSessionMsg
    /\ w_task = 0
    /\ t_pc = [t \in TaskIds |-> "unborn"]
    /\ t_pending = [t \in TaskIds |-> FALSE]
    /\ t_cancel = [t \in TaskIds |-> FALSE]
    /\ t_exit = [t \in TaskIds |-> "none"]
    /\ t_sess = [t \in TaskIds |-> "None"]
    /\ t_target = [t \in TaskIds |-> NoTarget]
    /\ t_last = [t \in TaskIds |-> "none"]
    /\ a_pc = "idle"
    /\ a_sess = "None"
    /\ d_pc = [d \in DeleteIds |-> "idle"]
    /\ d_name = [d \in DeleteIds |-> "None"]
    /\ u_pc = "mounted"
    /\ waitq = <<>>
    /\ writer = 0

WidgetNext ==
    \/ \E s \in Sessions : AttachStart(s)
    \/ AttachResume
    \/ AttachPaneDone
    \/ AttachResizeDone
    \/ AttachHideDone
    \/ TerminalInterruptStart
    \/ ResolveTargetDone
    \/ TerminalInterruptDone
    \/ \E d \in DeleteIds, s \in Sessions : DeleteRequest(d, s)
    \/ \E d \in DeleteIds : DeleteStart(d)
    \/ \E d \in DeleteIds : DeleteResume(d)
    \/ \E d \in DeleteIds : DeleteKillDone(d)
    \/ UnmountStart
    \/ UnmountResume
    \/ \E t \in TaskIds : TaskStart(t)
    \/ \E t \in TaskIds : TaskResolveDone(t)
    \/ \E t \in TaskIds : TaskCaptureDone(t)
    \/ \E t \in TaskIds : TaskSleepDone(t)


(***************************************************************************)
(* on_paste and _send_paste_text (terminal_widget.py:575-599), one action  *)
(* per await.  A pasted text is the sequence of what the loop sends: a     *)
(* non-empty line (all its chunks go to the one target resolved for it)    *)
(* or the Enter between two lines.  Before each of them _resolve_target    *)
(* (280-291) reads current_session anew.  A send to the target "" goes to  *)
(* whatever session the server takes as its default.                       *)
(***************************************************************************)
HandlerTexts == {<<"line", "Enter">>, <<"line", "Enter", "line">>}

\* terminal_widget.py:282-284, 291: _resolve_target up to its first await
ResolveTargetStart ==
    IF w_session # "None"
    THEN /\ h_pc' = "await_pane"
         /\ h_sess' = w_session
         /\ UNCHANGED h_sent
    ELSE /\ h_pc' = "await_send"
         /\ h_sess' = "None"
         /\ h_sent' = h_sent \cup {"default"}

\* terminal_widget.py:575-580, 582-594
OnPasteStart(text) ==
    /\ h_pc = "idle"
    /\ u_pc = "mounted"
    /\ w_session # "None"
    /\ NoReady
    /\ h_origin' = w_session
    /\ h_left' = text
    /\ ResolveTargetStart
    /\ writer' = 0
    /\ UNCHANGED <<w_session, w_pane, w_content, w_task, taskVars, a_pc, a_sess, d_pc,
                   d_name, u_pc, waitq>>
    /\ UNCHANGED nonHandlerVars

\* terminal_widget.py:284-290, then 595 or 599 up to the send in flight
PasteResolveDone(found) ==
    /\ h_pc = "await_pane"
    /\ NoReady
    /\ IF found
       THEN /\ w_pane' = h_sess
            /\ h_sent' = h_sent \cup {h_sess}
            /\ h_pc' = "await_send"
       ELSE /\ UNCHANGED w_pane
            /\ IF w_session = "None"
               THEN /\ h_pc' = "failed"
                    /\ UNCHANGED h_sent
               ELSE /\ h_sent' = h_sent \cup {w_session}
                    /\ h_pc' = "await_send"
    /\ writer' = 0
    /\ UNCHANGED <<h_left, h_origin, h_sess>>
    /\ UNCHANGED <<w_session, w_content, w_task, taskVars, a_pc, a_sess, d_pc, d_name,
                   u_pc, waitq>>
    /\ UNCHANGED nonHandlerVars

\* terminal_widget.py:592-599: a send answered, the loop goes on
PasteSendDone ==
    /\ h_pc = "await_send"
    /\ NoReady
    /\ h_left' = Tail(h_left)
    /\ IF Tail(h_left) = <<>>
       THEN /\ h_pc' = "done"
            /\ UNCHANGED <<h_sess, h_sent>>
       ELSE ResolveTargetStart
    /\ writer' = 0
    /\ UNCHANGED h_origin
    /\ UNCHANGED <<w_session, w_pane, w_content, w_task, taskVars, a_pc, a_sess, d_pc,
                   d_name, u_pc, waitq>>
    /\ UNCHANGED nonHandlerVars

HandlerInit ==
    /\ h_pc = "idle"
    /\ h_left = <<>>
    /\ h_origin = "None"
    /\ h_sess = "None"
    /\ h_sent = {}

HandlerNext ==
    \/ WidgetNext
    \/ \E text \in HandlerTexts : OnPasteStart(text)
    \/ \E found \in BOOLEAN : PasteResolveDone(found)
    \/ PasteSendDone


(***************************************************************************)
(* Key events (terminal_widget.py:297-573).  A key string and an event     *)
(* name are the sequences of their parts between "+" signs, so "ctrl+c" is *)
(* <<"ctrl", "c">> and `"+" in key` is Len(key) > 1.                        *)
(***************************************************************************)
Letters == {"c", "C", "k", "v", "y", "x"}

Printables == Letters \cup {"1"}

ModNames == {"ctrl", "control", "alt", "meta"}

SpecialNames == {"enter", "escape", "tab", "f1"}

\* str.lower() of a part
TokLower(tok) == IF tok = "C" THEN "c" ELSE tok

LowerName(n) == [i \in DOMAIN n |-> TokLower(n[i])]

\* len(s) == 1 of a string without "+"
IsOneChar(n) == Len(n) = 1 /\ n[1] \in Printables

IsAlpha(tok) == tok \in Letters

\* the last character of a part
LastCharOf(tok) ==
    CASE tok \in Printables -> tok
      [] tok \in {"ctrl", "control"} -> "l"
      [] tok = "alt" -> "t"
      [] tok = "meta" -> "a"
      [] tok = "enter" -> "r"
      [] tok = "escape" -> "e"
      [] tok = "tab" -> "b"
      [] tok = "f1" -> "1"
      [] OTHER -> "?"

\* s.endswith(ch)
EndsWith(n, ch) == n # <<>> /\ LastCharOf(n[Len(n)]) = ch

\* `word in s` for the words "ctrl", "alt" and "meta"
ContainsWord(n, word) == \E i \in DOMAIN n : n[i] = word

\* terminal_widget.py:484-498 special_map
special_map ==
    [k \in {"enter", "escape", "tab", "backspace", "delete", "up", "down", "left",
            "right", "home", "end", "pageup", "pagedown"} |->
        CASE k = "enter" -> "Enter"
          [] k = "escape" -> "Escape"
          [] k = "tab" -> "Tab"
          [] k = "backspace" -> "Backspace"
          [] k = "delete" -> "Delete"
          [] k = "up" -> "Up"
          [] k = "down" -> "Down"
          [] k = "left" -> "Left"
          [] k = "right" -> "Right"
          [] k = "home" -> "Home"
          [] k = "end" -> "End"
          [] k = "pageup" -> "PageUp"
          [] OTHER -> "PageDown"]

\* event.character: a printable character, a control character (SOH 1,
\* ETX 3, CR 13, SYN 22, ESC 27) or None
Chars == {"None", "c", "k", "v", "y", "1", "SOH", "ETX", "CR", "SYN", "ESC"}

\* ord(char) of a control character
CharCode(ch) ==
    CASE ch = "SOH" -> 1
      [] ch = "ETX" -> 3
      [] ch = "CR" -> 13
      [] ch = "SYN" -> 22
      [] OTHER -> 27

\* terminal_widget.py:417: code < 32
IsControlCode(ch) == ch \in {"SOH", "ETX", "CR", "SYN", "ESC"}

Alphabet ==
    <<"a", "b", "c", "d", "e", "f", "g", "h", "i", "j", "k", "l", "m",
      "n", "o", "p", "q", "r", "s", "t", "u", "v", "w", "x", "y", "z">>

\* the decoding reads chr((code + 65) & 0x7F)
ControlCodeLetter_off_by_one(ch) ==
    LET mapped == (CharCode(ch) + 65) % 128
    IN IF mapped \in 65..90 THEN Alphabet[mapped - 64] ELSE "None"

\* terminal_widget.py:418-420: mapped = chr((code + 64) & 0x7F); if it is a
\* letter (an upper-case one, as code < 32) the control letter is mapped.lower()
ControlCodeLetter(ch) ==
    LET mapped == (CharCode(ch) + 64) % 128
    IN IF mapped \in 65..90 THEN Alphabet[mapped - 64] ELSE "None"

KeyStrings ==
    {<<tok>> : tok \in Printables \cup SpecialNames}
    \cup {<<m, l>> : m \in ModNames, l \in {"c", "C", "k", "v", "1"}}
    \cup {<<"ctrl", m, l>> : m \in {"alt", "meta"}, l \in {"c", "k", "x"}}
    \cup {<<"ctrl", "enter">>}

\* event.name when it is not the key itself ("" makes the code use the key)
EventNames == {<<>>, <<"ctrl", "alt", "c">>, <<"ctrl", "meta", "k">>, <<"meta", "v">>}

KeyEvents ==
    {ev \in [key : KeyStrings, name : EventNames, char : Chars,
             ctrl : BOOLEAN, meta : BOOLEAN, shift : BOOLEAN] :
        /\ ev.shift => ev.meta
        /\ ev.name # <<>> => IsOneChar(ev.key) \/ ev.key = <<"f1">>}

\* what the client answers: the two signal strategies, send_keys, whether
\* the clipboard held text, and the capture made by the copy helper
KeyOutcomes ==
    {[fg |-> f, pane |-> p, keys |-> k, clip |-> TRUE, cap |-> "text"] :
        f \in BOOLEAN, p \in BOOLEAN, k \in BOOLEAN}
    \cup {[fg |-> TRUE, pane |-> TRUE, keys |-> TRUE, clip |-> FALSE, cap |-> "text"]}
    \cup {[fg |-> TRUE, pane |-> TRUE, keys |-> TRUE, clip |-> TRUE, cap |-> c] :
        c \in {"empty", "fail"}}

NoMods == <<>>

\* a client call: the operation and the tmux key token or text it carries
Call(op, mods, base) == [op |-> op, mods |-> mods, base |-> base]

SignalForeground == Call("send_signal_to_foreground", NoMods, <<"SIGINT">>)

SignalPane == Call("send_signal_to_pane", NoMods, <<"SIGINT">>)

SendKeysCall(mods, base) == Call("send_keys", mods, base)

SendCtrlC == SendKeysCall(<<"C-">>, <<"c">>)

Did(stopped, calls) == [stopped |-> stopped, calls |-> calls]

\* terminal_widget.py:335-350 and 685-689: the three interrupt strategies
interrupt_with_fallback(o) ==
    <<SignalForeground>>
    \o (IF ~o.fg THEN <<SignalPane>> ELSE <<>>)
    \o (IF ~o.fg /\ ~o.pane THEN <<SendCtrlC>> ELSE <<>>)

\* terminal_widget.py:362-364: the two signal strategies only
interrupt_signals_only(o) ==
    <<SignalForeground>> \o (IF ~o.fg THEN <<SignalPane>> ELSE <<>>)

\* terminal_widget.py:326-330 and 354-358: the condition of a hard override
hard_override(ctrl, meta, char, key, lname, letter, chars) ==
    /\ ctrl /\ meta
    /\ \/ char # "None" /\ char \in chars
       \/ IsOneChar(key) /\ TokLower(key[1]) = letter
       \/ /\ Len(lname) > 1
          /\ EndsWith(lname, letter)
          /\ ContainsWord(lname, "ctrl")
          /\ ContainsWord(lname, "alt") \/ ContainsWord(lname, "meta")

\* terminal_widget.py:431-437, 443-455: the letter of a name like ctrl+<letter>
ctrl_letter_of_name(n) ==
    IF /\ Len(n) > 1
       /\ \E i \in 1..(Len(n) - 1) : n[i] \in {"ctrl", "control"}
       /\ n[Len(n)] \in Printables /\ IsAlpha(n[Len(n)])
    THEN n[Len(n)] ELSE "None"

\* terminal_widget.py:410-455
ctrl_letter(ctrl, char, key, lname) ==
    IF ctrl
    THEN IF char # "None"
         THEN IF IsControlCode(char) THEN ControlCodeLetter(char)
              ELSE IF IsAlpha(char) THEN TokLower(char) ELSE "None"
         ELSE IF IsOneChar(key) /\ IsAlpha(key[1]) THEN TokLower(key[1])
         ELSE ctrl_letter_of_name(lname)
    ELSE IF Len(key) > 1 THEN ctrl_letter_of_name(key)
         ELSE ctrl_letter_of_name(lname)

\* terminal_widget.py:543-572: the token of a name like ctrl+alt+<char>
chord_of_name(n) ==
    LET mods == SubSeq(n, 1, Len(n) - 1)
    IN (IF \E i \in DOMAIN mods : mods[i] \in {"ctrl", "control"} THEN <<"C-">> ELSE <<>>)
       \o (IF \E i \in DOMAIN mods : mods[i] \in {"alt", "meta"} THEN <<"M-">> ELSE <<>>)

\* terminal_widget.py:507-521 chord_name
chord_name(ctrl, meta, key) ==
    SendKeysCall((IF ctrl THEN <<"C-">> ELSE <<>>) \o (IF meta THEN <<"M-">> ELSE <<>>),
             IF IsOneChar(key) /\ IsAlpha(key[1]) THEN <<TokLower(key[1])>>
             ELSE IF Len(key) = 1 /\ TokLower(key[1]) \in DOMAIN special_map
                  THEN <<special_map[TokLower(key[1])]>>
                  ELSE key)

\* control+c tries the three interrupt strategies whatever each one answers
forward_ctrl_letter_all_strategies(letter, o) ==
    IF letter = "v"
    THEN <<Call("read_clipboard", NoMods, <<>>)>>
         \o (IF o.clip THEN <<Call("send_paste_text", NoMods, <<"clipboard">>)>> ELSE <<>>)
    ELSE IF letter = "c"
    THEN <<SendCtrlC, SignalForeground, SignalPane>>
    ELSE <<SendKeysCall(<<"C-">>, <<letter>>)>>

\* control+v forwarded like every other control letter
forward_ctrl_letter_no_paste(letter, o) ==
    IF letter = "c"
    THEN <<SendCtrlC>>
         \o (IF ~o.keys THEN <<SignalForeground>> ELSE <<>>)
         \o (IF ~o.keys /\ ~o.fg THEN <<SignalPane>> ELSE <<>>)
    ELSE <<SendKeysCall(<<"C-">>, <<letter>>)>>

\* terminal_widget.py:456-482: a control chord is forwarded
forward_ctrl_letter(letter, o) ==
    IF letter = "v"
    THEN <<Call("read_clipboard", NoMods, <<>>)>>
         \o (IF o.clip THEN <<Call("send_paste_text", NoMods, <<"clipboard">>)>> ELSE <<>>)
    ELSE IF letter = "c"
    THEN <<SendCtrlC>>
         \o (IF ~o.keys THEN <<SignalForeground>> ELSE <<>>)
         \o (IF ~o.keys /\ ~o.fg THEN <<SignalPane>> ELSE <<>>)
    ELSE <<SendKeysCall(<<"C-">>, <<letter>>)>>

\* terminal_widget.py:376-403: the copy helpers
copy_helper(shift, o) ==
    LET output == CASE o.cap = "text" -> <<"captured">>
                    [] o.cap = "empty" -> <<"placeholder">>
                    [] OTHER -> <<"frame">>
    IN <<Call("capture-pane", NoMods, <<>>),
         Call(IF shift THEN "push_screen" ELSE "write_clipboard", NoMods, output)>>

\* the special-key branch tried before the literal-text branch
forward_plain_special_first(ctrl, meta, char, key, lname, o) ==
    IF Len(key) = 1 /\ TokLower(key[1]) \in DOMAIN special_map /\ ~(ctrl \/ meta)
    THEN <<SendKeysCall(NoMods, <<special_map[TokLower(key[1])]>>)>>
    ELSE IF char # "None" /\ ~ctrl /\ ~meta /\ Len(key) = 1
    THEN <<Call("send_text", NoMods, <<char>>)>>
    ELSE <<chord_name(ctrl, meta, key)>>

\* terminal_widget.py:500-573: a key that is no control chord
forward_plain(ctrl, meta, char, key, lname, o) ==
    IF char # "None" /\ ~ctrl /\ ~meta /\ Len(key) = 1
    THEN <<Call("send_text", NoMods, <<char>>)>>
    ELSE IF Len(key) = 1 /\ TokLower(key[1]) \in DOMAIN special_map /\ ~(ctrl \/ meta)
    THEN <<SendKeysCall(NoMods, <<special_map[TokLower(key[1])]>>)>>
    ELSE IF meta /\ EndsWith(lname, "v")
    THEN <<Call("read_clipboard", NoMods, <<>>)>>
         \o (IF o.clip THEN <<Call("send_paste_text", NoMods, <<"clipboard">>)>> ELSE <<>>)
    ELSE LET n == IF Len(key) > 1 THEN key ELSE lname
         IN IF Len(n) > 1 /\ n[Len(n)] \in Printables
            THEN <<SendKeysCall(chord_of_name(n),
                            IF IsAlpha(n[Len(n)]) THEN <<TokLower(n[Len(n)])>>
                            ELSE <<n[Len(n)]>>)>>
            ELSE <<chord_name(ctrl, meta, key)>>

\* the test for the escape key left out
is_escape_key_never(key) == FALSE

\* terminal_widget.py:372: key.lower() == "escape"
is_escape_key(key) == Len(key) = 1 /\ TokLower(key[1]) = "escape"

\* terminal_widget.py:297-573
on_key(ev, attached, o) ==
    LET key == ev.key
        name == IF ev.name # <<>> THEN ev.name ELSE key
        fix == ~ev.ctrl /\ key = <<"ctrl", "c">>
        ctrl == ev.ctrl \/ fix
        meta == ev.meta
        char == IF fix THEN "c" ELSE ev.char
        lname == IF fix THEN <<"c">> ELSE LowerName(name)
        letter == ctrl_letter(ctrl, char, key, lname)
    IN IF ~attached THEN Did(FALSE, <<>>)
       ELSE IF hard_override(ctrl, meta, char, key, lname, "c", {"c", "ETX"})
       THEN Did(TRUE, interrupt_with_fallback(o))
       ELSE IF hard_override(ctrl, meta, char, key, lname, "k", {"k"})
       THEN Did(TRUE, interrupt_signals_only(o))
       ELSE IF is_escape_key(key)
       THEN Did(FALSE, <<>>)
       ELSE IF meta /\ (EndsWith(LowerName(key), "y") \/ (char # "None" /\ TokLower(char) = "y"))
       THEN Did(TRUE, copy_helper(ev.shift, o))
       ELSE IF letter # "None"
       THEN Did(TRUE, forward_ctrl_letter(letter, o))
       ELSE Did(TRUE, forward_plain(ctrl, meta, char, key, lname, o))

\* terminal_widget.py:677-689
force_interrupt(attached, o) ==
    IF ~attached THEN Did(FALSE, <<>>) ELSE Did(FALSE, interrupt_with_fallback(o))

\* terminal_widget.py:670-675
send_ctrl_c(attached) ==
    IF ~attached THEN Did(FALSE, <<>>) ELSE Did(FALSE, <<SendCtrlC>>)

NoEvent ==
    [key |-> <<>>, name |-> <<>>, char |-> "None", ctrl |-> FALSE, meta |-> FALSE,
     shift |-> FALSE]

AllOk == [fg |-> TRUE, pane |-> TRUE, keys |-> TRUE, clip |-> TRUE, cap |-> "text"]

KeyCalled(op, attached, ev, o, res) ==
    /\ k_op' = op
    /\ k_att' = attached
    /\ k_ev' = ev
    /\ k_out' = o
    /\ k_res' = res
    /\ UNCHANGED nonKeyVars

OnKey ==
    /\ k_op = "none"
    /\ \E ev \in KeyEvents, attached \in BOOLEAN, o \in KeyOutcomes :
        /\ ~attached => o = AllOk
        /\ KeyCalled("on_key", attached, ev, o, on_key(ev, attached, o))

ForceInterrupt ==
    /\ k_op = "none"
    /\ \E attached \in BOOLEAN, o \in KeyOutcomes :
        KeyCalled("force_interrupt", attached, NoEvent, o, force_interrupt(attached, o))

SendCtrlCAction ==
    /\ k_op = "none"
    /\ \E attached \in BOOLEAN :
        KeyCalled("send_ctrl_c", attached, NoEvent, AllOk, send_ctrl_c(attached))

KeyInit ==
    /\ k_op = "none"
    /\ k_att = FALSE
    /\ k_ev = NoEvent
    /\ k_out = AllOk
    /\ k_res = Did(FALSE, <<>>)

KeyNext == OnKey \/ ForceInterrupt \/ SendCtrlCAction


(***************************************************************************)
(* The client against a multiplexer (tmux_interface.py:135-158, 184-190).  *)
(* The server holds a set of session names, here strings over two letters. *)
(* A name given with -s is taken as it is; a name given with -t is a       *)
(* target, which tmux resolves to the session of that exact name, else to  *)
(* the only session whose name starts with it.  A server without sessions  *)
(* has exited.  Any command may outlive command_timeout, whether or not    *)
(* the server carried it out.                                              *)
(***************************************************************************)
SessionNames == {<<"a">>, <<"a", "b">>, <<"b">>}

IsPrefix(n, m) == Len(n) <= Len(m) /\ SubSeq(m, 1, Len(n)) = n

\* the session a target names, or <<>> when it names none
ResolveTarget(n, srv) ==
    LET starts == {m \in srv : IsPrefix(n, m)}
    IN IF n \in srv THEN n
       ELSE IF Cardinality(starts) = 1 THEN CHOOSE m \in starts : TRUE
       ELSE <<>>

TimedOut == Resp("timeout", 0, <<>>)

\* the tool's answer to a command whose target is n
TargetAnswer(n, srv) ==
    IF srv = {} THEN Resp("exit", 1, <<"no server running", "on /tmp/tmux">>)
    ELSE IF ResolveTarget(n, srv) = <<>> THEN Resp("exit", 1, <<"can't find session">>)
    ELSE RespOk

\* new-session -s n -d
NewSessionAnswer(n, srv) ==
    IF n \in srv THEN Resp("exit", 1, <<"duplicate session">>) ELSE RespOk

\* the call made: `running` and `had` tell whether the server ran, and held a
\* session of exactly that name, before it
ServerCall(op, n, res) ==
    [op |-> op, name |-> n, res |-> res, running |-> s_srv # {}, had |-> n \in s_srv]

NoCall ==
    [op |-> "none", name |-> <<>>, res |-> Return("n/a"), running |-> FALSE, had |-> FALSE]

Served(call, srv) ==
    /\ s_prev' = s_last
    /\ s_last' = call
    /\ s_srv' = srv
    /\ UNCHANGED nonServerVars

\* tmux_interface.py:143-158 against the server: new-session, then the two
\* set-option commands, each of which may outlive the timeout
ServerCreateSession(n) ==
    \E late \in BOOLEAN, done \in BOOLEAN, lateTag \in {"none", "managed", "instance"} :
        LET made == IF late THEN done ELSE n \notin s_srv
            srv == IF made THEN s_srv \cup {n} ELSE s_srv
            first == IF late THEN TimedOut ELSE NewSessionAnswer(n, s_srv)
            script == <<first,
                        IF lateTag = "managed" THEN TimedOut ELSE TargetAnswer(n, srv),
                        IF lateTag = "instance" THEN TimedOut ELSE TargetAnswer(n, srv)>>
        IN /\ late /\ done => n \notin s_srv
           /\ Served(ServerCall("create_session", n, create_session(script)), srv)

\* tmux_interface.py:184-190 against the server
ServerKillSession(n) ==
    \E late \in BOOLEAN, done \in BOOLEAN :
        LET hit == ResolveTarget(n, s_srv)
            gone == hit # <<>> /\ (late => done)
            srv == IF gone THEN s_srv \ {hit} ELSE s_srv
            r == IF late THEN TimedOut ELSE TargetAnswer(n, s_srv)
        IN /\ ~late => done
           /\ Served(ServerCall("kill_session", n, kill_session(r)), srv)

\* tmux_interface.py:135-141 against the server
ServerSessionExists(n) ==
    \E late \in BOOLEAN :
        LET r == IF late THEN TimedOut ELSE TargetAnswer(n, s_srv)
        IN /\ n \in SessionNames
           /\ Served(ServerCall("session_exists", n, session_exists(r)), s_srv)

\* no session yet, so no server
ServerInit ==
    /\ s_srv = {}
    /\ s_prev = NoCall
    /\ s_last = NoCall

ServerNext ==
    \/ \E n \in SessionNames : ServerCreateSession(n)
    \/ \E n \in SessionNames : ServerKillSession(n)
    \/ \E n \in SessionNames : ServerSessionExists(n)

(***************************************************************************)
(* Paste (terminal_widget.py:575-608).  A pasted text is a sequence of     *)
(* items: a carriage return CR, a line feed LF, or a run of n other        *)
(* characters, Run(n).  A line is the number of its characters; a chunk    *)
(* of a line is its slice [start, start + len).                            *)
(***************************************************************************)
MaxPasteItems == 3  \* items of one pasted text

chunk_size == 1024

RunLengths == {1, chunk_size, chunk_size + 1, 2 * chunk_size + 1}

CR == [kind |-> "CR", n |-> 0]

LF == [kind |-> "LF", n |-> 0]

Run(n) == [kind |-> "run", n |-> n]

PasteItems == {CR, LF} \cup {Run(n) : n \in RunLengths}

PasteTexts == SeqsUpTo(PasteItems, MaxPasteItems)

\* text.replace("\r\n", "\n") left out: a CR LF pair stays two characters
RECURSIVE replace_crlf_skipped(_)
replace_crlf_skipped(text) ==
    IF text = <<>> THEN <<>>
    ELSE <<Head(text)>> \o replace_crlf_skipped(Tail(text))

\* text.replace("\r\n", "\n")
RECURSIVE replace_crlf(_)
replace_crlf(text) ==
    IF text = <<>> THEN <<>>
    ELSE IF Len(text) >= 2 /\ text[1] = CR /\ text[2] = LF
         THEN <<LF>> \o replace_crlf(Tail(Tail(text)))
         ELSE <<Head(text)>> \o replace_crlf(Tail(text))

\* .replace("\r", "\n")
replace_cr(text) ==
    [i \in 1..Len(text) |-> IF text[i] = CR THEN LF ELSE text[i]]

\* normalized.split("\n"): the lengths of the lines, in order
RECURSIVE split_lines(_, _)
split_lines(text, line) ==
    IF text = <<>> THEN <<line>>
    ELSE IF Head(text) = LF
         THEN <<line>> \o split_lines(Tail(text), 0)
         ELSE split_lines(Tail(text), line + Head(text).n)

SendTextCall(start, len) == [op |-> "send_text", start |-> start, len |-> len]

SendEnterCall == [op |-> "send_keys", start |-> 0, len |-> 0]

\* _send_text_in_chunks: while start < end, send text[start:start + chunk_size]
RECURSIVE send_text_in_chunks(_, _)
send_text_in_chunks(start, end) ==
    IF start < end
    THEN <<SendTextCall(start, IF start + chunk_size <= end THEN chunk_size
                                                          ELSE end - start)>>
         \o send_text_in_chunks(start + chunk_size, end)
    ELSE <<>>

\* the loop of _send_paste_text from line i on
RECURSIVE send_lines(_, _)
send_lines(lines, i) ==
    IF i > Len(lines) THEN <<>>
    ELSE (IF lines[i] # 0 THEN send_text_in_chunks(0, lines[i]) ELSE <<>>)
         \o (IF i - 1 < Len(lines) - 1 THEN <<SendEnterCall>> ELSE <<>>)
         \o send_lines(lines, i + 1)

send_paste_text(attached, text) ==
    IF ~attached \/ text = <<>> THEN <<>>
    ELSE send_lines(split_lines(replace_cr(replace_crlf(text)), 0), 1)

on_paste(attached, text) ==
    IF attached /\ text # <<>>
    THEN Did(TRUE, send_paste_text(attached, text))
    ELSE Did(FALSE, <<>>)

OnPaste ==
    /\ p_op = "none"
    /\ \E attached \in BOOLEAN, text \in PasteTexts :
        /\ p_op' = "on_paste"
        /\ p_att' = attached
        /\ p_text' = text
        /\ p_res' = on_paste(attached, text)
        /\ UNCHANGED nonPasteVars

PasteInit ==
    /\ p_op = "none"
    /\ p_att = FALSE
    /\ p_text = <<>>
    /\ p_res = Did(FALSE, <<>>)

PasteNext == OnPaste

(***************************************************************************)
(* The session sidebar (session_sidebar.py): the session directory.  A     *)
(* session is its name; a snapshot is a list of sessions without repeated  *)
(* names, as tmux keeps session names unique.                              *)
(***************************************************************************)
MaxSnapshot == 3    \* sessions in one snapshot

SidebarNames == {"a", "b", "c"}

NoRepeat(q) == \A i, j \in DOMAIN q : q[i] = q[j] => i = j

Snapshots == {q \in SeqsUpTo(SidebarNames, MaxSnapshot) : NoRepeat(q)}

InSeq(x, q) == \E i \in DOMAIN q : q[i] = x

Without(q, x) == LET Keep1(y) == y # x IN SelectSeq(q, Keep1)

\* the index, from 0, of the first session of that name; -1 if there is none
IndexOfName(sessions, name) ==
    IF InSeq(name, sessions)
    THEN (CHOOSE i \in DOMAIN sessions :
            sessions[i] = name /\ \A j \in 1..(i - 1) : sessions[j] # name) - 1
    ELSE -1

Directory(sessions, selected, pins) ==
    [sessions |-> sessions, selected |-> selected, pins |-> pins]

Current == Directory(sb_sessions, sb_selected, sb_pins)

\* get_selected_session: the selected session, "None" if there is none
get_selected_session(d) ==
    IF 0 <= d.selected /\ d.selected < Len(d.sessions)
    THEN d.sessions[d.selected + 1] ELSE "None"

\* a new pin is appended to the pin list
pin_appended(pins, name) ==
    IF InSeq(name, pins) THEN Without(pins, name) ELSE pins \o <<name>>

\* toggle_pin_session, the pin list: a new pin is inserted at the beginning
toggle_pin(pins, name) ==
    IF InSeq(name, pins) THEN Without(pins, name) ELSE <<name>> \o Without(pins, name)

\* the pinned sessions are put in front and left where they were as well
order_with_pins_pinned_kept(pins, sessions) ==
    IF pins = <<>> THEN sessions
    ELSE LET Exists(n) == InSeq(n, sessions)
         IN  SelectSeq(pins, Exists) \o sessions

\* _order_with_pins
order_with_pins(pins, sessions) ==
    IF pins = <<>> THEN sessions
    ELSE LET Exists(n) == InSeq(n, sessions)
             existing_pin_names == SelectSeq(pins, Exists)
             Other(n) == ~InSeq(n, existing_pin_names)
         IN  existing_pin_names \o SelectSeq(sessions, Other)

\* the selection after a refresh is always the first session
restore_selection_first(sessions, prev_selected_name) ==
    IF sessions # <<>> THEN 0 ELSE -1

\* update_sessions, lines 50-57: the selection after a refresh
restore_selection(sessions, prev_selected_name) ==
    IF sessions # <<>>
    THEN IF prev_selected_name # "None" /\ InSeq(prev_selected_name, sessions)
         THEN IndexOfName(sessions, prev_selected_name)
         ELSE 0
    ELSE -1

update_sessions(d, snapshot) ==
    LET sessions == order_with_pins(d.pins, snapshot)
    IN  Directory(sessions, restore_selection(sessions, get_selected_session(d)), d.pins)

toggle_pin_session(d, name) ==
    update_sessions(Directory(d.sessions, d.selected, toggle_pin(d.pins, name)),
                    d.sessions)

\* select_session: the cursor after the call (unchanged if no session has the name)
select_session(d, name) ==
    IF InSeq(name, d.sessions) THEN IndexOfName(d.sessions, name) ELSE d.selected

\* the cursor moves past the last session without wrapping
select_next_no_wrap(d) ==
    IF d.sessions = <<>> THEN d.selected ELSE d.selected + 1

\* select_next: the cursor after the call
select_next(d) ==
    IF d.sessions = <<>> THEN d.selected
    ELSE (d.selected + 1) % Len(d.sessions)

\* the cursor moves before the first session without wrapping
select_previous_no_wrap(d) ==
    IF d.sessions = <<>> THEN d.selected ELSE d.selected - 1

\* select_previous: the cursor after the call
select_previous(d) ==
    IF d.sessions = <<>> THEN d.selected
    ELSE (d.selected - 1) % Len(d.sessions)

NoSidebarCall ==
    [op |-> "none", arg |-> "None", before |-> Directory(<<>>, -1, <<>>),
     ret |-> "None", again |-> FALSE, origin |-> Directory(<<>>, -1, <<>>),
     snapshot |-> <<>>]

\* the call just made; `again` tells that it repeats the call before it, a
\* pin toggle of the same name, and `origin` is the directory before that one;
\* `snapshot` is the list update_sessions was given, if it ran
SidebarCalledWith(op, arg, ret, snapshot) ==
    sb_last' = [op |-> op, arg |-> arg, before |-> Current, ret |-> ret,
                snapshot |-> snapshot,
                again |-> (op = "toggle_pin_session" /\ sb_last.op = op
                           /\ sb_last.arg = arg /\ ~sb_last.again),
                origin |-> IF op = "toggle_pin_session" /\ sb_last.op = op
                              /\ sb_last.arg = arg /\ ~sb_last.again
                           THEN sb_last.before ELSE Directory(<<>>, -1, <<>>)]

SidebarCalled(op, arg, ret) == SidebarCalledWith(op, arg, ret, <<>>)

DirectoryBecomes(d) ==
    /\ sb_sessions' = d.sessions
    /\ sb_selected' = d.selected
    /\ sb_pins' = d.pins

SidebarBecomes(d) ==
    /\ DirectoryBecomes(d)
    /\ UNCHANGED nonSidebarVars

UpdateSessions(snapshot) ==
    /\ snapshot \in Snapshots
    /\ SidebarBecomes(update_sessions(Current, snapshot))
    /\ SidebarCalledWith("update_sessions", "None", "None", snapshot)
    /\ UNCHANGED sb_pinned_in

SelectSession(name) ==
    /\ name \in SidebarNames
    /\ SidebarBecomes(Directory(sb_sessions, select_session(Current, name), sb_pins))
    /\ SidebarCalled("select_session", name, IF InSeq(name, sb_sessions) THEN "True" ELSE "False")
    /\ UNCHANGED sb_pinned_in

SelectNext ==
    LET d == Directory(sb_sessions, select_next(Current), sb_pins)
    IN  /\ SidebarBecomes(d)
        /\ SidebarCalled("select_next", "None",
                         IF sb_sessions = <<>> THEN "None" ELSE get_selected_session(d))
        /\ UNCHANGED sb_pinned_in

SelectPrevious ==
    LET d == Directory(sb_sessions, select_previous(Current), sb_pins)
    IN  /\ SidebarBecomes(d)
        /\ SidebarCalled("select_previous", "None",
                         IF sb_sessions = <<>> THEN "None" ELSE get_selected_session(d))
        /\ UNCHANGED sb_pinned_in

TogglePinSession(name) ==
    /\ name \in SidebarNames
    /\ SidebarBecomes(toggle_pin_session(Current, name))
    /\ SidebarCalledWith("toggle_pin_session", name, "None", sb_sessions)
    /\ sb_pinned_in' = pin_appended(sb_pinned_in, name)

\* __init__
SidebarInit ==
    /\ sb_sessions = <<>>
    /\ sb_selected = -1
    /\ sb_pins = <<>>
    /\ sb_pinned_in = <<>>
    /\ sb_last = NoSidebarCall

SidebarNext ==
    \/ \E snapshot \in Snapshots : UpdateSessions(snapshot)
    \/ \E name \in SidebarNames : SelectSession(name)
    \/ SelectNext
    \/ SelectPrevious
    \/ \E name \in SidebarNames : TogglePinSession(name)

(***************************************************************************)
(* update_sessions one await at a time (session_sidebar.py:30-57): the     *)
(* awaits of remove_children (40) and of each mount (47) are suspension    *)
(* points, select_session (66-73) has no await inside.  One call is the    *)
(* one the refresh loop task makes (tmux_app.py:581-591), the other the    *)
(* one an action of the application makes (action_toggle_pin 541-545, the  *)
(* refresh of action_new_session 456).  The application runs its actions   *)
(* one after another, so a navigation runs beside the loop's call only.    *)
(***************************************************************************)
RefreshNames == {"a", "b"}

Refreshers == {"loop", "action"}

RefreshSnapshots ==
    {q \in SeqsUpTo(RefreshNames, Cardinality(RefreshNames)) : NoRepeat(q)}

Stepwise == Directory(r_sessions, r_index, r_pins)

\* SessionEntry(session_info=session): session_entry.py:13-16
SessionEntry(session) == [name |-> session, is_selected |-> FALSE]

\* _update_selection (92-95) over the entry list
UpdateSelection(entries, selected_index) ==
    [i \in DOMAIN entries |->
        [name |-> entries[i].name, is_selected |-> (i - 1 = selected_index)]]

\* a write of the sidebar by one handler ends the undisturbed run of every
\* call suspended beside it
Disturbs(i) == r_clean' = [j \in Refreshers |-> IF j = i THEN r_clean[j] ELSE FALSE]

\* lines 33-40: up to the await of remove_children
UpdateSessionsFrom(i, pins, snapshot) ==
    /\ r_prev' = [r_prev EXCEPT ![i] = get_selected_session(Stepwise)]
    /\ r_sessions' = order_with_pins(pins, snapshot)
    /\ r_list' = [r_list EXCEPT ![i] = order_with_pins(pins, snapshot)]
    /\ r_at' = [r_at EXCEPT ![i] = 0]
    /\ r_pc' = [r_pc EXCEPT ![i] = "await_remove"]
    /\ r_pins' = pins
    /\ r_clean' = [j \in Refreshers |->
                      IF j = i THEN \A k \in Refreshers \ {i} : r_pc[k] = "idle"
                      ELSE FALSE]
    /\ UNCHANGED <<r_index, r_entries>>
    /\ UNCHANGED nonRefreshVars

\* tmux_app.py:571-576 after list_sessions answered
UpdateSessionsStart(i, snapshot) ==
    /\ r_pc[i] = "idle"
    /\ UpdateSessionsFrom(i, r_pins, snapshot)

\* tmux_app.py:541-545, session_sidebar.py:113-129
TogglePinStart ==
    /\ r_pc["action"] = "idle"
    /\ get_selected_session(Stepwise) # "None"
    /\ UpdateSessionsFrom("action", toggle_pin(r_pins, get_selected_session(Stepwise)),
                          r_sessions)

\* lines 50-57: the selection restored, over the entries as they are by then
RestoreSelection(i, entries) ==
    /\ r_index' = restore_selection(r_sessions, r_prev[i])
    /\ r_entries' = IF r_sessions # <<>>
                    THEN UpdateSelection(entries, restore_selection(r_sessions, r_prev[i]))
                    ELSE entries
    /\ r_pc' = [r_pc EXCEPT ![i] = "idle"]
    /\ UNCHANGED r_at

\* lines 44-47: the next entry of the call's own list is created, appended and
\* its mount awaited; after the last one lines 50-57 run
MountNext(i, entries) ==
    IF r_at[i] < Len(r_list[i])
    THEN /\ r_entries' = Append(entries, SessionEntry(r_list[i][r_at[i] + 1]))
         /\ r_at' = [r_at EXCEPT ![i] = r_at[i] + 1]
         /\ r_pc' = [r_pc EXCEPT ![i] = "await_mount"]
         /\ UNCHANGED r_index
    ELSE RestoreSelection(i, entries)

\* line 40 answered: line 41 clears the entry list, then the loop
RemoveChildrenDone(i) ==
    /\ r_pc[i] = "await_remove"
    /\ MountNext(i, <<>>)
    /\ Disturbs(i)
    /\ UNCHANGED <<r_sessions, r_pins, r_list, r_prev>>
    /\ UNCHANGED nonRefreshVars

\* line 47 answered
MountDone(i) ==
    /\ r_pc[i] = "await_mount"
    /\ MountNext(i, r_entries)
    /\ Disturbs(i)
    /\ UNCHANGED <<r_sessions, r_pins, r_list, r_prev>>
    /\ UNCHANGED nonRefreshVars

\* action_sidebar_down, action_sidebar_up (tmux_app.py:458-466)
Navigate(selected_index) ==
    /\ r_pc["action"] = "idle"
    /\ r_sessions # <<>>
    /\ r_index' = selected_index
    /\ r_entries' = UpdateSelection(r_entries, selected_index)
    /\ r_clean' = [j \in Refreshers |-> FALSE]
    /\ UNCHANGED <<r_sessions, r_pins, r_pc, r_list, r_at, r_prev>>
    /\ UNCHANGED nonRefreshVars

\* __init__ (17-23)
RefreshInit ==
    /\ r_sessions = <<>>
    /\ r_index = -1
    /\ r_pins = <<>>
    /\ r_entries = <<>>
    /\ r_pc = [i \in Refreshers |-> "idle"]
    /\ r_list = [i \in Refreshers |-> <<>>]
    /\ r_at = [i \in Refreshers |-> 0]
    /\ r_prev = [i \in Refreshers |-> "None"]
    /\ r_clean = [i \in Refreshers |-> FALSE]

RefreshNext ==
    \/ \E i \in Refreshers, snapshot \in RefreshSnapshots : UpdateSessionsStart(i, snapshot)
    \/ TogglePinStart
    \/ \E i \in Refreshers : RemoveChildrenDone(i)
    \/ \E i \in Refreshers : MountDone(i)
    \/ Navigate(select_next(Stepwise))
    \/ Navigate(select_previous(Stepwise))

(***************************************************************************)
(* The application's session handlers (tmux_app.py) over the sidebar and   *)
(* the terminal widget.  A handler is one action, with the calls it makes  *)
(* on the sidebar and the terminal and the outcome of its tmux call; the   *)
(* terminal is its current session, whether its capture task runs, and the *)
(* frame it shows.                                                         *)
(***************************************************************************)
\* kill_session, create_session and rename_session return True or False, or
\* raise an error they do not catch (tmux_interface.py:143-198)
Outcomes == {"True", "False", "raise"}

\* the sessions the tmux server has while the application runs
AppNames == {"a", "b"}

NotListed == [ok |-> FALSE, sessions |-> <<>>]

\* what list_sessions would give when a handler calls it: a snapshot, or an error
Listings ==
    [ok : {TRUE}, sessions : {q \in Snapshots : \A i \in DOMAIN q : q[i] \in AppNames}]
        \cup {NotListed}


Terminal(session, capture, frame) ==
    [session |-> session, capture |-> capture, frame |-> frame]

Showing == Terminal(app_session, app_capture, app_frame)

\* set_session: the old capture task is cancelled, a new one is started
set_session(name) == Terminal(name, TRUE, "Connected to session")

\* clear_session: the capture task is cancelled
clear_session == Terminal("None", FALSE, "No session selected")

\* _refresh_sessions: an error of list_sessions is swallowed
refresh_sessions(d, listed) ==
    IF listed.ok THEN update_sessions(d, listed.sessions) ELSE d

\* the directory is refreshed whether or not the session was created
action_new_session_refresh_always(d, outcome, listed) ==
    IF outcome # "raise" THEN refresh_sessions(d, listed) ELSE d

\* action_new_session, the directory after it
action_new_session(d, outcome, listed) ==
    IF outcome = "True" THEN refresh_sessions(d, listed) ELSE d

\* handle_rename_confirm, the directory after it
handle_rename_confirm(d, old_name, new_name, outcome, listed) ==
    IF new_name = "" \/ new_name = old_name THEN d
    ELSE IF outcome = "True"
         THEN LET r == refresh_sessions(d, listed)
              IN  Directory(r.sessions, select_session(r, new_name), r.pins)
         ELSE d

\* _delete_session, the terminal after it: cleared first if it shows the session
delete_session_terminal(t, session_name) ==
    IF t.session # "None" /\ t.session = session_name THEN clear_session ELSE t

\* _delete_session, the directory after it
delete_session_directory(d, outcome, listed) ==
    IF outcome = "True" THEN refresh_sessions(d, listed) ELSE d

TerminalBecomes(t) ==
    /\ app_session' = t.session
    /\ app_capture' = t.capture
    /\ app_frame' = t.frame

\* what list_sessions gives when the server holds the sessions srv: they
\* come in some order, or the call raises
ListingsOf(srv) ==
    {l \in Listings : l.ok => {l.sessions[i] : i \in DOMAIN l.sessions} = srv}

\* the frame a tick of the capture task stores: the capture fails, and the
\* fallback text is stored, when the server has no session of the name the
\* terminal holds (terminal_widget.py:252-265)
capture_frame(name, srv) == IF name \in srv THEN "output" ELSE "Session is active"

\* a handler of the application ran: the directory and the terminal it started from
AppCalledOn(op, arg, ret, old_name) ==
    /\ SidebarCalled(op, arg, ret)
    /\ app_before' = Showing
    /\ app_old' = old_name
    /\ UNCHANGED <<sb_pinned_in, nonAppVars>>

AppCalled(op, arg, ret) == AppCalledOn(op, arg, ret, "None")

\* another client of the tmux server creates, kills or renames sessions
ServerChanges(srv) ==
    /\ srv \in SUBSET AppNames
    /\ srv # app_server
    /\ app_server' = srv
    /\ AppCalled("server", "None", "None")
    /\ UNCHANGED <<sb_sessions, sb_selected, sb_pins, app_session, app_capture, app_frame,
                   app_focus>>

\* _refresh_loop, every 60 s, and on_mount
RefreshSessions(listed) ==
    /\ listed \in ListingsOf(app_server)
    /\ DirectoryBecomes(refresh_sessions(Current, listed))
    /\ AppCalled("refresh_sessions", "None", "None")
    /\ UNCHANGED <<app_session, app_capture, app_frame, app_focus, app_server>>

\* action_focus_next, action_focus_previous: between the sidebar and the terminal
FocusNext ==
    /\ app_focus' = (IF app_focus = "sidebar" THEN "terminal" ELSE "sidebar")
    /\ AppCalled("focus_next", "None", "None")
    /\ UNCHANGED <<sb_sessions, sb_selected, sb_pins, app_session, app_capture, app_frame,
                   app_server>>

ActionSidebarDown ==
    /\ app_focus = "sidebar"
    /\ SelectNext

ActionSidebarUp ==
    /\ app_focus = "sidebar"
    /\ SelectPrevious

\* action_toggle_pin, toggle_pin_selected
ActionTogglePin ==
    /\ app_focus = "sidebar"
    /\ get_selected_session(Current) # "None"
    /\ TogglePinSession(get_selected_session(Current))

ActionAttachSession ==
    /\ app_focus = "sidebar"
    /\ get_selected_session(Current) # "None"
    /\ TerminalBecomes(set_session(get_selected_session(Current)))
    /\ app_focus' = "terminal"
    /\ AppCalled("attach_session", get_selected_session(Current), "None")
    /\ UNCHANGED <<sb_sessions, sb_selected, sb_pins, app_server>>

\* a tick of the capture task of the attached session
CaptureFrame ==
    /\ app_capture
    /\ app_frame # capture_frame(app_session, app_server)
    /\ app_frame' = capture_frame(app_session, app_server)
    /\ AppCalled("capture", app_session, "None")
    /\ UNCHANGED <<sb_sessions, sb_selected, sb_pins, app_session, app_capture, app_focus,
                   app_server>>

\* action_new_session with the name session_name: create_session returns True
\* only if the session was made, and may have made it when it fails
\* (tmux_interface.py:143-158); the listing is read after it
ActionNewSession(session_name, outcome, made, listed) ==
    /\ session_name \in AppNames
    /\ outcome \in Outcomes
    /\ made \in BOOLEAN
    /\ made => session_name \notin app_server
    /\ outcome = "True" => made
    /\ app_focus = "sidebar"
    /\ app_server' = (IF made THEN app_server \cup {session_name} ELSE app_server)
    /\ listed \in ListingsOf(app_server')
    /\ DirectoryBecomes(action_new_session(Current, outcome, listed))
    /\ AppCalled("new_session", "None", outcome)
    /\ UNCHANGED <<app_session, app_capture, app_frame, app_focus>>

\* rename_session returns True only if the server renamed the session
RenameWorks(old_name, new_name, outcome) ==
    new_name # "" /\ new_name # old_name /\ outcome = "True"

\* the rename dialog, opened on a selected session, was confirmed; with an
\* empty or unchanged name neither rename_session nor list_sessions is called
HandleRenameConfirm(old_name, new_name, outcome, listed) ==
    /\ old_name \in AppNames
    /\ new_name \in AppNames \cup {""}
    /\ outcome \in Outcomes
    /\ (new_name = "" \/ new_name = old_name) => (outcome = "False" /\ listed = NotListed)
    /\ RenameWorks(old_name, new_name, outcome) =>
          old_name \in app_server /\ new_name \notin app_server
    /\ app_server' = (IF RenameWorks(old_name, new_name, outcome)
                      THEN (app_server \ {old_name}) \cup {new_name} ELSE app_server)
    /\ listed \in ListingsOf(app_server')
    /\ DirectoryBecomes(handle_rename_confirm(Current, old_name, new_name, outcome, listed))
    /\ app_focus' = (IF RenameWorks(old_name, new_name, outcome) THEN "sidebar" ELSE app_focus)
    /\ AppCalledOn("rename_session", new_name,
                   IF new_name = "" \/ new_name = old_name THEN "None" ELSE outcome,
                   old_name)
    /\ UNCHANGED <<app_session, app_capture, app_frame>>

\* action_delete_session and the task it starts, _delete_session;
\* kill_session returns True only if the server killed the session
ActionDeleteSession(outcome, listed) ==
    /\ outcome \in Outcomes
    /\ app_focus = "sidebar"
    /\ get_selected_session(Current) # "None"
    /\ outcome = "True" => get_selected_session(Current) \in app_server
    /\ app_server' = (IF outcome = "True"
                      THEN app_server \ {get_selected_session(Current)} ELSE app_server)
    /\ listed \in ListingsOf(app_server')
    /\ TerminalBecomes(delete_session_terminal(Showing, get_selected_session(Current)))
    /\ DirectoryBecomes(delete_session_directory(Current, outcome, listed))
    /\ app_focus' = app_focus
    /\ AppCalled("delete_session", get_selected_session(Current), outcome)

\* __init__ of the terminal widget; the sidebar has the focus; no tmux server yet
AppInit ==
    /\ app_session = "None"
    /\ app_capture = FALSE
    /\ app_frame = "No session selected"
    /\ app_focus = "sidebar"
    /\ app_before = Terminal("None", FALSE, "No session selected")
    /\ app_old = "None"
    /\ app_server = {}

AppNext ==
    \/ \E srv \in SUBSET AppNames : ServerChanges(srv)
    \/ \E listed \in Listings : RefreshSessions(listed)
    \/ FocusNext
    \/ ActionSidebarDown
    \/ ActionSidebarUp
    \/ ActionTogglePin
    \/ ActionAttachSession
    \/ CaptureFrame
    \/ \E session_name \in AppNames, outcome \in Outcomes, made \in BOOLEAN,
          listed \in Listings :
            ActionNewSession(session_name, outcome, made, listed)
    \/ \E old_name \in AppNames, new_name \in AppNames \cup {""},
          outcome \in Outcomes, listed \in Listings :
            HandleRenameConfirm(old_name, new_name, outcome, listed)
    \/ \E outcome \in Outcomes, listed \in Listings : ActionDeleteSession(outcome, listed)

(***************************************************************************)
(* The scroll view of the terminal widget (terminal_widget.py:90-155).     *)
(* The scroll container is Textual's: the model keeps its scroll offset,   *)
(* its viewport height and the height of its content, in lines.  With      *)
(* textual >= 0.45 (setup.py:12) a content update is laid out at the next  *)
(* refresh, so the handler that makes it still reads the old heights, and  *)
(* scroll_end scrolls after that refresh, to the end of the new content.   *)
(* An action is the handler together with the refresh that follows it.     *)
(***************************************************************************)
MaxContent == 4     \* lines of content in one frame
MaxViewport == 2    \* lines of the viewport

ContentHeights == 0..MaxContent

ViewportHeights == 1..MaxViewport

\* max_y = max(content_h - viewport_h, 0)
max_scroll_y(vh, ch) == IF ch - vh > 0 THEN ch - vh ELSE 0

\* _is_scroll_at_bottom: return y >= max_y - 1
is_scroll_at_bottom(y, vh, ch) == y >= max_scroll_y(vh, ch) - 1

\* the container keeps its offset within the content when the heights change
ClampScroll(y, vh, ch) ==
    IF y > max_scroll_y(vh, ch) THEN max_scroll_y(vh, ch) ELSE y

\* _update_display with a frame of h lines, from the view (y, vh, ch):
\* the offset, content height and follow flag once the frame is laid out
update_display(y, vh, ch, follow, h) ==
    LET at_bottom == is_scroll_at_bottom(y, vh, ch)
        following == IF ~at_bottom THEN FALSE ELSE follow
        scroll_end == following
    IN  [y      |-> IF scroll_end THEN max_scroll_y(vh, h)
                                  ELSE ClampScroll(y, vh, h),
         ch     |-> h,
         follow |-> is_scroll_at_bottom(y, vh, ch)]

ViewCall(op) ==
    [op |-> op, y |-> v_y, vh |-> v_vh, ch |-> v_ch, follow |-> v_follow]

NoViewCall == [op |-> "none", y |-> 0, vh |-> 0, ch |-> 0, follow |-> TRUE]

\* a tick of the capture loop stores the captured frame and displays it
FrameUpdate(h) ==
    LET after == update_display(v_y, v_vh, v_ch, v_follow, h)
    IN  /\ h \in ContentHeights
        /\ v_y' = after.y
        /\ v_ch' = after.ch
        /\ v_follow' = after.follow
        /\ v_last' = ViewCall("update")
        /\ UNCHANGED <<v_vh, nonViewVars>>

\* set_session and clear_session display a one-line message, then set
\* _follow_output = True
SessionBanner ==
    LET after == update_display(v_y, v_vh, v_ch, v_follow, 1)
    IN  /\ v_y' = after.y
        /\ v_ch' = after.ch
        /\ v_follow' = TRUE
        /\ v_last' = ViewCall("banner")
        /\ UNCHANGED <<v_vh, nonViewVars>>

\* the user scrolls the container to offset y; on_scroll then runs
OnScroll(y) ==
    /\ y \in 0..max_scroll_y(v_vh, v_ch)
    /\ y # v_y
    /\ v_y' = y
    /\ v_follow' = is_scroll_at_bottom(y, v_vh, v_ch)
    /\ v_last' = ViewCall("scroll")
    /\ UNCHANGED <<v_vh, v_ch, nonViewVars>>

\* the terminal is resized: the container gets another height, the widget
\* runs no handler of its own (the app's on_resize resizes the tmux window)
ViewportResized(vh) ==
    /\ vh \in ViewportHeights
    /\ vh # v_vh
    /\ v_vh' = vh
    /\ v_y' = ClampScroll(v_y, vh, v_ch)
    /\ v_last' = ViewCall("resize")
    /\ UNCHANGED <<v_ch, v_follow, nonViewVars>>

\* __init__: "No session selected", _follow_output = True
ViewInit ==
    /\ v_y = 0
    /\ v_vh = MaxViewport
    /\ v_ch = 1
    /\ v_follow = TRUE
    /\ v_last = NoViewCall

ViewNext ==
    \/ \E h \in ContentHeights : FrameUpdate(h)
    \/ SessionBanner
    \/ \E y \in 0..MaxContent : OnScroll(y)
    \/ \E vh \in ViewportHeights : ViewportResized(vh)

Init == ClientInit /\ WidgetInit /\ KeyInit /\ ServerInit /\ ViewInit
        /\ PasteInit /\ SidebarInit /\ AppInit /\ HandlerInit /\ RefreshInit

ClientSpec == Init /\ [][ClientNext]_vars

WidgetSpec == Init /\ [][WidgetNext]_vars

KeySpec == Init /\ [][KeyNext]_vars

ServerSpec == Init /\ [][ServerNext]_vars

ViewSpec == Init /\ [][ViewNext]_vars

PasteSpec == Init /\ [][PasteNext]_vars

SidebarSpec == Init /\ [][SidebarNext]_vars

AppSpec == Init /\ [][AppNext]_vars

HandlerSpec == Init /\ [][HandlerNext]_vars

RefreshSpec == Init /\ [][RefreshNext]_vars


\* the event loop runs the step that throws a requested cancellation into a
\* capture task: Task.cancel() wakes the task whatever it is awaiting
TaskStep(t) == TaskStart(t) \/ TaskResolveDone(t) \/ TaskCaptureDone(t) \/ TaskSleepDone(t)

CancelledStep == \E t \in TaskIds : t_pending[t] /\ TaskStep(t)

WidgetFairSpec == WidgetSpec /\ WF_vars(CancelledStep)

(***************************************************************************)
(* Claims about the capture loop.                                          *)
(***************************************************************************)
LiveTasks == {t \in TaskIds : Live(t)}

\* C1: under every interleaving of attach, detach (by a delete task),
\* unmount and capture ticks, at most one capture task of the widget is
\* live: a new task is created only after the prior one was cancelled and
\* has terminated.
C1_AtMostOneCaptureLoop ==
    /\ Cardinality(LiveTasks) <= 1
    /\ \A t \in TaskIds : Live(t) => t = w_task

\* a second capture task is live after the first was cancelled and ended
C1_Witness ==
    \E t1, t2 \in TaskIds :
        /\ t1 # t2
        /\ t_exit[t1] = "cancelled"
        /\ t_pc[t2] \in {"resolve", "capture", "sleep"}

\* C2: once the cancellation of a capture task has been requested, the task
\* writes neither the frame nor the target pane again, its next step at
\* whichever await it is suspended ends it, and it does end.
C2_CancelledTaskStops ==
    /\ [](writer # 0 => ~t_cancel[writer])
    /\ [][\A t \in TaskIds :
            (t_cancel[t] /\ t_pc'[t] # t_pc[t]) => (t_pc'[t] = "done" /\ t_exit'[t] = "cancelled")]_vars
    /\ \A t \in TaskIds : (t_cancel[t] ~> Done(t))

\* a task that had rendered pane output was cancelled by a detach and ended,
\* and the frame is the one the detach wrote
C2_Witness ==
    \E t \in TaskIds :
        /\ t_cancel[t]
        /\ t_exit[t] = "cancelled"
        /\ w_content = NoSessionMsg
        /\ w_session = "None"

\* C3: a failed pane resolution or a failed capture never ends the loop:
\* no task ends on an error, a tick that is not cancelled goes on to the
\* capture and then to the sleep, and the sleep to another attempt.
C3_FailedTickRetried ==
    /\ [](\A t \in TaskIds : t_exit[t] # "error")
    /\ [][\A t \in TaskIds :
            (~t_pending[t] /\ t_pc'[t] # t_pc[t]) =>
                CASE t_pc[t] = "resolve" -> t_pc'[t] \in {"capture", "sleep"}
                  [] t_pc[t] = "capture" -> t_pc'[t] = "sleep"
                  [] t_pc[t] = "sleep" -> t_pc'[t] \in {"resolve", "capture"}
                  [] OTHER -> TRUE]_vars

\* after a failed tick the task slept and is making another attempt
C3_Witness ==
    \E t \in TaskIds : t_pc[t] = "resolve" /\ t_last[t] = "failed" /\ ~t_cancel[t]


(***************************************************************************)
(* Claims about interrupt delivery.                                        *)
(***************************************************************************)
\* the chord control+meta+<letter> as the terminal reports it
HardChord(letter) ==
    /\ k_op = "on_key"
    /\ k_ev.ctrl /\ k_ev.meta
    /\ k_ev.char = letter
    /\ k_ev.key = <<letter>>
    /\ k_ev.name = <<>>

\* C5: for the chords control+meta+c and control+meta+k and for
\* force_interrupt, with a session attached, the foreground process group is
\* signalled first, the pane's process group iff that failed, the key token
\* C-c is sent iff both failed, nothing else is attempted, and on_key stops
\* the event.
C5_InterruptOrder ==
    LET calls == k_res.calls
        n == Len(calls)
    IN (k_att /\ (k_op = "force_interrupt" \/ HardChord("c") \/ HardChord("k"))) =>
        /\ n >= 1 /\ n <= 3
        /\ calls[1] = SignalForeground
        /\ (n >= 2) <=> ~k_out.fg
        /\ (n >= 2) => calls[2] = SignalPane
        /\ (n >= 3) <=> (~k_out.fg /\ ~k_out.pane)
        /\ (n >= 3) => calls[3] = SendCtrlC
        /\ k_op = "on_key" => k_res.stopped


(***************************************************************************)
(* Claims about the classification of a failed command.                    *)
(***************************************************************************)
Says(phrase, r) == \E i \in 1..Len(r.err) : Lower(r.err[i]) = phrase

\* the error kind the classification rules give to one answer of the tool
ExpectedKind(r) ==
    CASE r.kind = "missing" -> "TMuxNotRunningError"
      [] r.kind = "timeout" -> "CommandExecutionError"
      [] r.kind = "exit" /\ r.rc = 0 -> "none"
      [] r.kind = "exit" /\ r.rc # 0 /\ Says("no server running", r) -> "TMuxNotRunningError"
      [] r.kind = "exit" /\ r.rc # 0 /\ ~Says("no server running", r)
            /\ Says("session not found", r) -> "SessionNotFoundError"
      [] r.kind = "exit" /\ r.rc # 0 /\ ~Says("no server running", r)
            /\ ~Says("session not found", r)
            /\ (Says("duplicate session", r) \/ Says("already exists", r)) -> "SessionCreationError"
      [] OTHER -> "CommandExecutionError"

\* C12: a command's failure is classified by the first rule that applies, in
\* the order not running, session not found, creation conflict, execution
\* failure, whatever the letter case of the error text; a zero exit code is
\* never an error, a timeout is an execution failure and a missing binary is
\* not running.
C12_ClassificationOrdered ==
    c_op = "_run_tmux_command" => c_res.exc = ExpectedKind(c_script[1])

\* an error text that says both "session not found" and "already exists"
\* was classified as session not found
C12_Witness ==
    /\ c_op = "_run_tmux_command"
    /\ c_script[1].kind = "exit" /\ c_script[1].rc # 0
    /\ Says("session not found", c_script[1]) /\ Says("already exists", c_script[1])
    /\ c_res.exc = "SessionNotFoundError"


(***************************************************************************)
(* Claims about the active pane.                                           *)
(***************************************************************************)
\* a line of the listing that names a pane: a flag and an id
IsPaneLine(line) == Len(line) = 2

PanesListed(listing) == SelectSeq(listing, IsPaneLine)

ActivePanes(listing) == SelectSeq(listing, LAMBDA line : IsPaneLine(line) /\ line[1] = "1")

QueryFailed == run_tmux_command(c_script[1], <<>>).exc # "none"

ThenExists(op) ==
    /\ s_last.op = "session_exists"
    /\ s_prev.op = op
    /\ s_prev.name = s_last.name
    /\ s_prev.running

\* C11: against a running multiplexer, session_exists(n) right after
\* create_session(n) returns true, and right after kill_session(n) returns
\* false.
C11_RoundTrip ==
    /\ ThenExists("create_session") => s_last.res = Return(TRUE)
    /\ ThenExists("kill_session") => s_last.res = Return(FALSE)

(***************************************************************************)
(* Claims about the scroll view.                                           *)
(***************************************************************************)
WasAtBottom == is_scroll_at_bottom(v_last.y, v_last.vh, v_last.ch)

IsPinned == v_y = max_scroll_y(v_vh, v_ch)

\* C14: after every frame update, a view that was at or within one line of
\* the bottom before it is at the bottom of the new content, and a view that
\* was further up has kept its scroll offset and has follow mode off.
C14_PinnedOrUntouched ==
    v_last.op = "update" =>
        IF WasAtBottom THEN IsPinned
        ELSE v_y = v_last.y /\ ~v_follow

IsBreakAt(text, i) ==
    \/ text[i] = LF
    \/ text[i] = CR /\ ~(i < Len(text) /\ text[i + 1] = LF)

LineBreaks(text) == {i \in 1..Len(text) : IsBreakAt(text, i)}

\* the position of the k-th line break of the text, 0 for k = 0 and
\* Len(text) + 1 past the last
BreakPos(text, k) ==
    IF k = 0 THEN 0
    ELSE IF k > Cardinality(LineBreaks(text)) THEN Len(text) + 1
    ELSE CHOOSE i \in LineBreaks(text) :
            Cardinality({j \in LineBreaks(text) : j <= i}) = k

RECURSIVE RunSum(_, _, _)
RunSum(text, lo, hi) ==
    IF lo > hi THEN 0
    ELSE (IF text[lo].kind = "run" THEN text[lo].n ELSE 0) + RunSum(text, lo + 1, hi)

\* the number of characters of the k-th line of the text, k from 1
LineLength(text, k) ==
    RunSum(text, BreakPos(text, k - 1) + 1, BreakPos(text, k) - 1)

EnterPositions(calls) == {i \in 1..Len(calls) : calls[i] = SendEnterCall}

\* the position in the calls of the k-th Enter, 0 for k = 0 and
\* Len(calls) + 1 past the last
EnterPos(calls, k) ==
    IF k = 0 THEN 0
    ELSE IF k > Cardinality(EnterPositions(calls)) THEN Len(calls) + 1
    ELSE CHOOSE i \in EnterPositions(calls) :
            Cardinality({j \in EnterPositions(calls) : j <= i}) = k

\* the calls between Enter k-1 and Enter k are the chunks of a line of n
\* characters: consecutive slices from 0 to n, each of at most chunk_size
\* characters and each but the last of exactly chunk_size
ChunksOfLine(calls, k, n) ==
    LET lo == EnterPos(calls, k - 1) + 1
        hi == EnterPos(calls, k) - 1
    IN  /\ \A i \in lo..hi :
            /\ calls[i].op = "send_text"
            /\ calls[i].len >= 1
            /\ calls[i].len <= 1024
            /\ i < hi => calls[i].len = 1024
            /\ calls[i].start = (IF i = lo THEN 0
                                 ELSE calls[i - 1].start + calls[i - 1].len)
        /\ IF lo > hi THEN n = 0
           ELSE calls[hi].start + calls[hi].len = n

\* C16: a paste into an attached session sends, for each line of the text
\* (CRLF and CR counting as one line break each), the chunks of that line,
\* each of at most 1024 characters and each but the last of exactly 1024,
\* and an Enter after every line but the last: as many Enters as line breaks.
C16_PasteLinesAndChunks ==
    (p_op = "on_paste" /\ p_att) =>
        LET calls == p_res.calls
            breaks == Cardinality(LineBreaks(p_text))
        IN  /\ Cardinality(EnterPositions(calls)) = breaks
            /\ \A k \in 1..(breaks + 1) :
                   ChunksOfLine(calls, k, LineLength(p_text, k))

C16_Witness ==
    /\ p_op = "on_paste"
    /\ p_att
    /\ p_text = <<Run(2 * chunk_size + 1), CR, LF>>
    /\ p_res.calls = <<SendTextCall(0, 1024), SendTextCall(1024, 1024),
                       SendTextCall(2048, 1), SendEnterCall>>

(***************************************************************************)
(* Claims about the translation of key events.                             *)
(***************************************************************************)
OnKeyAttached == k_op = "on_key" /\ k_att

Untouched == Did(FALSE, <<>>)

DenotesControlLetter(ev) ==
    \/ ev.ctrl
    \/ Len(ev.key) = 2 /\ ev.key[1] \in {"ctrl", "control"} /\ IsAlpha(ev.key[2])

PlainControlEvent ==
    /\ OnKeyAttached
    /\ ~k_ev.meta
    /\ k_ev.key # <<"escape">>

PasteTrigger(calls) ==
    calls # <<>> /\ calls[1] = Call("read_clipboard", NoMods, <<>>)

\* the calls are those of control+letter: the paste trigger for v, else the
\* token C-<letter> sent first
SendsControlLetter(calls, letter) ==
    IF letter = "v" THEN PasteTrigger(calls)
    ELSE calls # <<>> /\ calls[1] = SendKeysCall(<<"C-">>, <<letter>>)

SendsSomeControlLetter(calls) ==
    \/ PasteTrigger(calls)
    \/ \E i \in DOMAIN calls :
        /\ calls[i].op = "send_keys"
        /\ calls[i].mods = <<"C-">>
        /\ Len(calls[i].base) = 1
        /\ \E j \in DOMAIN Alphabet : Alphabet[j] = calls[i].base[1]

IsControlKeyName(key) ==
    Len(key) = 2 /\ key[1] \in {"ctrl", "control"} /\ IsAlpha(key[2])

NamedKeys == DOMAIN special_map \ {"escape"}

Unmodified(ev) == ~ev.ctrl /\ ~ev.meta

\* C19: an unmodified event whose key is one of the named special keys
\* makes exactly one key-token send, of the key's fixed token, and no
\* literal-text send, whatever its character payload.
C19_SpecialKeyToken ==
    ( /\ OnKeyAttached
      /\ Unmodified(k_ev)
      /\ Len(k_ev.key) = 1
      /\ k_ev.key[1] \in NamedKeys )
    => k_res.calls = <<SendKeysCall(NoMods, <<special_map[k_ev.key[1]]>>)>>

PrintableChars == {ch \in Chars : ch # "None" /\ ~IsControlCode(ch)}

NotComposite(ev) == Len(ev.key) = 1 /\ Len(ev.name) <= 1

LiteralSend(ch) == <<Call("send_text", NoMods, <<ch>>)>>

\* C20 as stated: an unmodified event with a printable payload whose key
\* and name are not composite makes exactly one literal-text send, of that
\* character, and no key-token send.
C20_PrintableSentLiterally ==
    ( /\ OnKeyAttached
      /\ Unmodified(k_ev)
      /\ k_ev.char \in PrintableChars
      /\ NotComposite(k_ev) )
    => k_res.calls = LiteralSend(k_ev.char)

\* C20 amended: the same for every such event whose key is not the escape
\* key; an escape-key event sends nothing.
C20_PrintableUnlessEscape ==
    ( /\ OnKeyAttached
      /\ Unmodified(k_ev)
      /\ k_ev.char \in PrintableChars
      /\ NotComposite(k_ev) )
    => k_res.calls = (IF k_ev.key = <<"escape">> THEN <<>>
                      ELSE LiteralSend(k_ev.char))

C20_Witness ==
    /\ OnKeyAttached
    /\ Unmodified(k_ev)
    /\ k_ev.key = <<"enter">>
    /\ k_ev.char = "1"
    /\ k_res = Did(TRUE, LiteralSend("1"))

\* the event as on_key reads it (terminal_widget.py:305-324): the key
\* "ctrl+c" without the control flag is read as control, character c, name c
ReadAsCtrlC(ev) == ~ev.ctrl /\ ev.key = <<"ctrl", "c">>

CtrlOf(ev) == ev.ctrl \/ ReadAsCtrlC(ev)

CharOf(ev) == IF ReadAsCtrlC(ev) THEN "c" ELSE ev.char

LnameOf(ev) ==
    IF ReadAsCtrlC(ev) THEN <<"c">>
    ELSE LowerName(IF ev.name # <<>> THEN ev.name ELSE ev.key)

ControlLetterOf(ev) == ctrl_letter(CtrlOf(ev), CharOf(ev), ev.key, LnameOf(ev))

\* the event is taken by a rule that precedes control+letter: a hard
\* override chord, the escape key, or a copy chord
EarlierThanControlLetter(ev) ==
    \/ hard_override(CtrlOf(ev), ev.meta, CharOf(ev), ev.key, LnameOf(ev), "c", {"c", "ETX"})
    \/ hard_override(CtrlOf(ev), ev.meta, CharOf(ev), ev.key, LnameOf(ev), "k", {"k"})
    \/ ev.key = <<"escape">>
    \/ ev.meta /\ ( \/ EndsWith(LowerName(ev.key), "y")
                    \/ CharOf(ev) # "None" /\ TokLower(CharOf(ev)) = "y" )

ResolvesToControl(ev, letter) ==
    ~EarlierThanControlLetter(ev) /\ ControlLetterOf(ev) = letter

SendsToken(calls, mods, base) ==
    \E i \in DOMAIN calls : calls[i] = SendKeysCall(mods, base)

PartsOf(ev) == IF Len(ev.key) > 1 THEN ev.key ELSE LnameOf(ev)

NamesModifier(ev, words) ==
    Len(PartsOf(ev)) > 1 /\ \E i \in 1..(Len(PartsOf(ev)) - 1) : PartsOf(ev)[i] \in words

ControlApplies(ev) == CtrlOf(ev) \/ NamesModifier(ev, {"ctrl", "control"})

MetaApplies(ev) == ev.meta \/ NamesModifier(ev, {"alt", "meta"})

\* the token of the key proper: the lowercased letter, the mapped name of a
\* special key, else the key as written
BaseToken(ev) ==
    LET last == PartsOf(ev)[Len(PartsOf(ev))]
    IN  IF IsAlpha(last) THEN TokLower(last)
        ELSE IF TokLower(last) \in DOMAIN special_map THEN special_map[TokLower(last)]
        ELSE last

PlainLiteral(ev) ==
    CharOf(ev) # "None" /\ ~CtrlOf(ev) /\ ~ev.meta /\ Len(ev.key) = 1

\* the event carries a modifier and no rule before the chord rule takes it
LeftToChordRule(ev) ==
    /\ ControlApplies(ev) \/ MetaApplies(ev)
    /\ ~EarlierThanControlLetter(ev)
    /\ ControlLetterOf(ev) = "None"
    /\ ~PlainLiteral(ev)

\* C22: an event that carries a modifier and is left to the chord rule makes
\* exactly one key-token send, of "C-" if control applies, "M-" if meta
\* applies, then the lowercased letter or the mapped special-key name,
\* whether the modifiers are flags or parts of a composite key name.
C22_ChordToken ==
    (OnKeyAttached /\ LeftToChordRule(k_ev)) =>
        k_res.calls =
            <<SendKeysCall((IF ControlApplies(k_ev) THEN <<"C-">> ELSE <<>>)
                           \o (IF MetaApplies(k_ev) THEN <<"M-">> ELSE <<>>),
                           <<BaseToken(k_ev)>>)>>

(***************************************************************************)
(* Claims about the session directory.                                     *)
(***************************************************************************)
ValidCursor(selected, sessions) == 0 <= selected /\ selected < Len(sessions)

\* C23: after every call of the directory the selection cursor is -1 or a
\* valid index into the session sequence.
C23_CursorValid ==
    sb_selected = -1 \/ ValidCursor(sb_selected, sb_sessions)

C23_Witness ==
    /\ sb_last.op = "select_next"
    /\ Len(sb_sessions) = 3
    /\ sb_last.before.selected = 2
    /\ sb_selected = 0

Reordered == sb_last.op \in {"update_sessions", "toggle_pin_session"}

PinnedHere == {n \in SidebarNames : InSeq(n, sb_pins) /\ InSeq(n, sb_sessions)}

\* the position of a name in a list, 0 if it is not in it
PositionIn(q, n) == IF InSeq(n, q) THEN IndexOfName(q, n) + 1 ELSE 0

\* C24: after every refresh and pin toggle the pinned sessions present come
\* before every other session, earliest pinned first; a refresh leaves the
\* pin list as it was, names without a session included.
C24_PinnedFirstInPinOrder ==
    Reordered =>
        /\ \A i \in DOMAIN sb_sessions :
               (sb_sessions[i] \in PinnedHere) = (i <= Cardinality(PinnedHere))
        /\ \A m, n \in PinnedHere :
               PositionIn(sb_pinned_in, m) < PositionIn(sb_pinned_in, n)
                   => PositionIn(sb_sessions, m) < PositionIn(sb_sessions, n)
        /\ sb_last.op = "update_sessions" => sb_pins = sb_last.before.pins

\* C25: two pin toggles of a session of the directory, one right after the
\* other, give back the session order and the pin list of before the first.
C25_ToggleTwiceRestores ==
    (sb_last.again /\ InSeq(sb_last.arg, sb_last.origin.sessions)) =>
        /\ sb_sessions = sb_last.origin.sessions
        /\ sb_pins = sb_last.origin.pins

\* C26: on n >= 1 sessions with the cursor at i, select_next moves the
\* cursor to (i + 1) mod n and select_previous to (i - 1) mod n, and each
\* returns the session there; on no sessions both return nothing and leave
\* the cursor where it was.
C26_NextPreviousWrap ==
    LET n == Len(sb_last.before.sessions)
        i == sb_last.before.selected
    IN  sb_last.op \in {"select_next", "select_previous"} =>
            /\ sb_sessions = sb_last.before.sessions
            /\ IF n = 0
               THEN sb_selected = i /\ sb_last.ret = "None"
               ELSE /\ sb_selected = (IF sb_last.op = "select_next"
                                      THEN (i + 1) % n ELSE (i + n - 1) % n)
                    /\ sb_last.ret = sb_sessions[sb_selected + 1]

C26_Witness ==
    /\ sb_last.op = "select_previous"
    /\ Len(sb_sessions) = 3
    /\ sb_last.before.selected = 0
    /\ sb_selected = 2
    /\ sb_last.ret = sb_sessions[3]

SelectedBefore ==
    IF ValidCursor(sb_last.before.selected, sb_last.before.sessions)
    THEN sb_last.before.sessions[sb_last.before.selected + 1] ELSE "None"

\* C27: after a refresh or pin toggle the cursor points at the session that
\* was selected before, by name, if it is still there; else at the first
\* session, or nowhere (-1) if there is none.
C27_SelectionFollowsName ==
    Reordered =>
        IF SelectedBefore # "None" /\ InSeq(SelectedBefore, sb_sessions)
        THEN /\ ValidCursor(sb_selected, sb_sessions)
             /\ sb_sessions[sb_selected + 1] = SelectedBefore
        ELSE sb_selected = (IF sb_sessions # <<>> THEN 0 ELSE -1)

C27_Witness ==
    /\ sb_last.op = "toggle_pin_session"
    /\ sb_last.before.selected = 1
    /\ SelectedBefore = "b"
    /\ sb_selected = 2
    /\ sb_sessions[3] = "b"

(***************************************************************************)
(* Claims about the application's session handlers.                        *)
(***************************************************************************)
\* C28: when deleting a session fails (kill_session returns False or raises),
\* the directory and the terminal (attached session, capture task, frame)
\* are as they were when the delete was requested.
C28_FailedDeleteChangesNothing ==
    (sb_last.op = "delete_session" /\ sb_last.ret # "True") =>
        /\ Current = sb_last.before
        /\ Showing = app_before

\* C29: when create_session or rename_session returns False, the directory
\* (sessions, cursor, pin list) is exactly as it was before the handler.
C29_FailedCreateRenameKeepsDirectory ==
    (sb_last.op \in {"new_session", "rename_session"} /\ sb_last.ret = "False") =>
        Current = sb_last.before

C29_Witness ==
    /\ sb_last.op = "new_session"
    /\ sb_last.ret = "False"
    /\ Len(sb_sessions) = 2
    /\ sb_selected = 1
    /\ sb_pins # <<>>

(***************************************************************************)
(* Claims about who writes the widget's target pane and frame.             *)
(***************************************************************************)
\* the step is one of set_session (the pane and the frame are set at line 180-190)
AttachWrites == a_pc = "await_pane" /\ a_pc' # a_pc

\* the step is one of clear_session, run by a delete task
DetachWrites == \E d \in DeleteIds : d_pc'[d] # d_pc[d]

\* the step is a tick of the capture task the widget holds
CaptureLoopWrites == writer' # 0 /\ writer' = w_task'

\* C30: the stored target pane and the rendered frame are changed only by
\* attach, by detach and by the capture task of the attached session; no
\* other handler, such as the ctrl+c interrupt, changes either.
C30_OnlyCaptureContextWrites ==
    [][(w_pane' # w_pane \/ w_content' # w_content) =>
        AttachWrites \/ DetachWrites \/ CaptureLoopWrites]_vars

(***************************************************************************)
(* Claims about the order a refresh stores.                                *)
(***************************************************************************)
Occurrences(x, q) == Cardinality({i \in DOMAIN q : q[i] = x})

\* the sessions of q that are not pinned, in the order q has them
Unpinned(q, pins) == LET Free(n) == ~InSeq(n, pins) IN SelectSeq(q, Free)

\* C37: the sequence a refresh stores is a permutation of the snapshot it was
\* given (each session exactly once), and the sessions that are not pinned
\* keep the relative order they had in the snapshot.
C37_RefreshPermutes ==
    Reordered =>
        /\ Len(sb_sessions) = Len(sb_last.snapshot)
        /\ \A n \in SidebarNames :
              Occurrences(n, sb_sessions) = Occurrences(n, sb_last.snapshot)
        /\ Unpinned(sb_sessions, sb_pins) = Unpinned(sb_last.snapshot, sb_pins)

C37_Witness ==
    /\ sb_last.op = "update_sessions"
    /\ sb_last.snapshot = <<"a", "b", "c">>
    /\ sb_pins = <<"c", "b">>
    /\ sb_sessions = <<"c", "b", "a">>

(***************************************************************************)
(* Claims about the interrupt of plain control+c and about chords with     *)
(* both modifiers.                                                         *)
(***************************************************************************)
\* whether the client call succeeded, as the client answered
Succeeded(call, o) ==
    CASE call = SendCtrlC -> o.keys
      [] call = SignalForeground -> o.fg
      [] call = SignalPane -> o.pane
      [] OTHER -> FALSE

Made(calls, call) == \E i \in DOMAIN calls : calls[i] = call

OfLetter(ev, l) ==
    \/ ev.char # "None" /\ ev.char \in Letters /\ TokLower(ev.char) = l /\ IsOneChar(ev.key)
    \/ Len(ev.key) > 1 /\ TokLower(ev.key[Len(ev.key)]) = l

\* C39: a key event with both control and meta on a letter other than the
\* hard-override (c, k), copy (y) and paste (v) letters sends a key token
\* that carries both the C- and the M- prefix.
C39_BothModifiersKept ==
    \A l \in {"x"} :
        (OnKeyAttached /\ ControlApplies(k_ev) /\ MetaApplies(k_ev) /\ OfLetter(k_ev, l)) =>
            SendsToken(k_res.calls, <<"C-", "M-">>, <<l>>)

(***************************************************************************)
(* Claims about create_session against the multiplexer.                    *)
(***************************************************************************)
\* C35: whenever create_session returns False or raises, the call has not
\* newly created a session of the given name: the server holds one only if
\* it held it before the call.
C35_CreateAllOrNothing ==
    (s_last.op = "create_session" /\ s_last.res # Return(TRUE)) =>
        (s_last.name \in s_srv => s_last.had)

(***************************************************************************)
(* Claims about the frame a failed capture leaves.                         *)
(***************************************************************************)
\* C40: a tick whose capture command fails leaves the rendered frame as it
\* was: the step that ends a capture either stores captured pane content or
\* does not change the frame.
C40_FailedCaptureKeepsFrame ==
    [][\A t \in TaskIds :
          (t_pc[t] = "capture" /\ t_pc'[t] # "capture" /\ w_content'.kind # "output") =>
              w_content' = w_content]_vars

(***************************************************************************)
(* Claims about the stored target pane under concurrent handlers.          *)
(***************************************************************************)
\* C32: in every state, between the suspension points of the handlers too,
\* the stored target pane is unset or a pane of the attached session, and
\* it is unset when no session is attached.
C32_TargetPaneOfAttached ==
    w_pane = "None" \/ w_pane = w_session

(***************************************************************************)
(* Claims about a rename of the attached session.                          *)
(***************************************************************************)
\* the application has just renamed the session the terminal is attached to
RenamedAttached ==
    /\ sb_last.op = "rename_session"
    /\ sb_last.ret = "True"
    /\ app_old # "None"
    /\ app_before.session = app_old

\* C36: after the attached session was renamed through the application the
\* terminal still addresses it: the name it holds is the session's new name,
\* a session of the server, so that ticks capture it and keys reach it.
C36_RenamedStillAddressed ==
    RenamedAttached =>
        /\ app_session = sb_last.arg
        /\ app_session \in app_server
        /\ capture_frame(app_session, app_server) = "output"


\* C33: every line and every Enter a paste sends is addressed to the session
\* that was attached when the paste began, whatever attaches and detaches run
\* beside it: a paste is never split across two sessions.
C33_PasteToOneSession == h_sent \subseteq {h_origin}


\* the session selected once the call i has run to its end undisturbed
SelectedAfter(i) ==
    get_selected_session(Directory(r_list[i], restore_selection(r_list[i], r_prev[i]),
                                   r_pins))

\* C31: a refresh is an atomic swap for every reader: at every suspension point
\* of an update_sessions call that runs with no other handler writing the
\* sidebar beside it, the session a reader is given as the selected one is the
\* one selected before the refresh or the one selected after it.
C31_RefreshAtomicForReaders ==
    \A i \in Refreshers :
        (r_pc[i] # "idle" /\ r_clean[i])
            => get_selected_session(Stepwise) \in {r_prev[i], SelectedAfter(i)}

====
